---- MODULE Spec2Model ----
(***************************************************************************)
(* Model of the Shuttle CLI core (mdlopresti/loom-shuttle):                *)
(*   - ConfigStore: loadConfig / saveConfig / getConfigValue /             *)
(*     setConfigValue / listConfig / validateConfig (utils/config-file)    *)
(*   - the process-wide cached NATS connection and the LoomSubjects        *)
(*     subject builders (nats/client)                                      *)
(*   - getGlobalOptions (cli.ts) and the actions of the commands           *)
(*     (commands/*.ts): agents, shutdown, submit, spin-up, stats,          *)
(*     projects over REST and over NATS, work, targets                     *)
(* Several specifications share the module; each one moves only its own    *)
(* variables and leaves the others at their initial value.                 *)
(***************************************************************************)
EXTENDS Integers, Sequences, FiniteSets, TLC

VARIABLES
    configFile,   \* the configuration file at the resolved path
    env,          \* process.env restricted to the recognised variables
    lastOp,       \* the last ConfigStore call: its name and argument
    result,       \* what that call returned (or the error it raised)
    candidate,    \* the object last given to validateConfig
    errors,       \* the list validateConfig returned for it
    clientSource,      \* which copy of nats/client the process has loaded
    cachedConnection,  \* the module-level cache: 0 for null, else a connection
    connections,       \* every connection the process has opened, by number
    frames,            \* per caller, the call it is suspended in (or idle)
    lastReturn,        \* the last call of the client that returned or threw
    subjectCalls,      \* the two LoomSubjects calls being compared
    subjects,          \* the subject strings those calls returned
    invocation,        \* the command line: command, program flags, argument, options
    pc,                \* where the command's action is suspended
    cmdGlobalOpts,     \* what getGlobalOptions(command) returned to the action
    cmdConfig,         \* what the action's loadConfig call returned
    loads,             \* how many times the action has called loadConfig
    requests,          \* the requests the action has sent, in order
    response,          \* the last reply the action received
    answered,          \* what the action's awaited prompt resolved to
    printed,           \* the calls of the output helpers, in order
    exitCode,          \* the process exit code, -1 while the action runs
    ending,            \* how the action ended: process.exit or a return
    remote             \* the coordinator's state behind the projects command

configVars == <<configFile, env, lastOp, result>>

validateVars == <<candidate, errors>>

natsVars == <<clientSource, cachedConnection, connections, frames, lastReturn>>

subjectVars == <<subjectCalls, subjects>>

commandVars == <<invocation, pc, cmdGlobalOpts, cmdConfig, loads, requests, response,
                 answered, printed, exitCode, ending, remote>>

vars == <<configFile, env, lastOp, result, candidate, errors,
          clientSource, cachedConnection, connections, frames, lastReturn,
          subjectCalls, subjects,
          invocation, pc, cmdGlobalOpts, cmdConfig, loads, requests, response,
          printed, exitCode, ending, remote>>

----------------------------------------------------------------------------
(* Values *)

\* JavaScript's undefined, for an option that is absent or explicitly undefined
Undefined == "<undefined>"

\* the fields of CLIConfiguration
Fields ==
    {"natsUrl", "projectId", "natsCredentials", "defaultBoundary",
     "defaultPriority", "outputFormat", "apiUrl", "apiToken"}

\* DEFAULT_CLI_CONFIG of @loom/shared with a wrong transport endpoint
DEFAULT_CLI_CONFIG_WrongUrl ==
    [natsUrl |-> "nats://127.0.0.1:4222", defaultPriority |-> 5, outputFormat |-> "table"]

\* DEFAULT_CLI_CONFIG of @loom/shared
DEFAULT_CLI_CONFIG ==
    [natsUrl |-> "nats://localhost:4222", defaultPriority |-> 5, outputFormat |-> "table"]

\* the project id of a configuration no source gives a project id, left empty
DefaultProjectId_Empty == [projectId |-> ""]

\* the project id of a configuration no source gives a project id
DefaultProjectId == [projectId |-> "default"]

\* the recognised environment variables and the one field each maps to
EnvVars == {"NATS_URL", "PROJECT_ID", "LOOM_API_URL", "LOOM_API_TOKEN"}

EnvField(v) ==
    CASE v = "NATS_URL"       -> "natsUrl"
      [] v = "PROJECT_ID"     -> "projectId"
      [] v = "LOOM_API_URL"   -> "apiUrl"
      [] v = "LOOM_API_TOKEN" -> "apiToken"

\* the object with no keys, {}
EmptyObject == [x \in {} |-> ""]

\* object spread {...a, ...b}: b's keys win, a's other keys stay
Merge(a, b) ==
    [f \in DOMAIN a \cup DOMAIN b |-> IF f \in DOMAIN b THEN b[f] ELSE a[f]]

\* property access o.k on an object that may lack the key
Get(o, k) == IF k \in DOMAIN o THEN o[k] ELSE Undefined

\* JavaScript truthiness of an optional string
Truthy(s) == s # Undefined /\ s # ""

----------------------------------------------------------------------------
(* Bounds and input sets of the ConfigStore specifications *)

\* most fields one saveConfig call names in its partial
MaxPartial == 2

\* the values a caller stores per field (two where an overwrite has to show)
FieldValues(f) ==
    CASE f = "natsUrl"         -> {"nats://file:4222"}
      [] f = "projectId"       -> {"file-project", "saved-project"}
      [] f = "natsCredentials" -> {"/etc/loom/nats.creds"}
      [] f = "defaultBoundary" -> {"personal"}
      [] f = "defaultPriority" -> {3}
      [] f = "outputFormat"    -> {"json"}
      [] f = "apiUrl"          -> {"http://file:3000"}
      [] f = "apiToken"        -> {"file-token"}

\* the value the environment gives a variable when it is set
EnvValue(v) ==
    CASE v = "NATS_URL"       -> "nats://env:4222"
      [] v = "PROJECT_ID"     -> "env-project"
      [] v = "LOOM_API_URL"   -> "http://env:3000"
      [] v = "LOOM_API_TOKEN" -> "env-token"

\* every object over the field set D
ObjectsOver(D) ==
    LET RECURSIVE Build(_)
        Build(R) ==
            IF R = {} THEN {EmptyObject}
            ELSE LET f == CHOOSE g \in R : TRUE
                 IN  {Merge(o, [x \in {f} |-> v]) : o \in Build(R \ {f}), v \in FieldValues(f)}
    IN  Build(D)

\* the partials a saveConfig call is given
Partials ==
    UNION {ObjectsOver(D) : D \in {E \in SUBSET Fields : Cardinality(E) <= MaxPartial}}

\* the environments a process starts in
Environments ==
    {[v \in D |-> EnvValue(v)] : D \in SUBSET EnvVars}

\* the projectOverride values a caller passes (the key may also be absent)
OverrideInputs == {Undefined, "", "override-project"}

\* the files found at the configuration path when the process starts
InitialFiles ==
    { [state |-> "absent"],
      [state |-> "malformed"],
      [state |-> "json", content |-> [projectId |-> "file-project"]],
      [state |-> "json", content |-> [natsUrl |-> "nats://file:4222", projectId |-> "file-project"]] }

----------------------------------------------------------------------------
(* ConfigStore: utils/config-file *)

\* the object parsed from the file, {} when there is no file
fileConfig(file) == IF file.state = "json" THEN file.content ELSE EmptyObject

\* the fields the environment provides
envConfig(e) ==
    [f \in {EnvField(v) : v \in DOMAIN e} |->
        e[CHOOSE v \in DOMAIN e : EnvField(v) = f]]

\* loadConfig(string | options): a path is the options object {configPath}
normalizeSource(source) ==
    IF source.kind = "path" THEN [configPath |-> source.path] ELSE source.options

\* loadConfig whose defaults overwrite what the file holds
loadConfig_DefaultsLast(file, e, source) ==
    LET options  == normalizeSource(source)
        override == Get(options, "projectOverride")
        merged   == Merge(Merge(Merge(Merge(fileConfig(file), DefaultProjectId),
                                      DEFAULT_CLI_CONFIG),
                                envConfig(e)),
                          IF Truthy(override) THEN [projectId |-> override] ELSE EmptyObject)
    IN  IF file.state = "malformed"
        THEN [ok |-> FALSE, error |-> "ConfigParseError"]
        ELSE [ok |-> TRUE, config |-> merged]

\* loadConfig: defaults < file < environment < projectOverride
loadConfig(file, e, source) ==
    LET options  == normalizeSource(source)
        override == Get(options, "projectOverride")
        merged   == Merge(Merge(Merge(Merge(DefaultProjectId, DEFAULT_CLI_CONFIG),
                                      fileConfig(file)),
                                envConfig(e)),
                          IF Truthy(override) THEN [projectId |-> override] ELSE EmptyObject)
    IN  IF file.state = "malformed"
        THEN [ok |-> FALSE, error |-> "ConfigParseError"]
        ELSE [ok |-> TRUE, config |-> merged]

\* saveConfig that writes the partial over whatever the file held
saveConfig_Overwrite(file, partial) ==
    IF file.state = "malformed"
    THEN file
    ELSE [state |-> "json", content |-> partial]

\* saveConfig: read the file (or {}), shallow-merge partial on top, write back
saveConfig(file, partial) ==
    IF file.state = "malformed"
    THEN file
    ELSE [state |-> "json", content |-> Merge(fileConfig(file), partial)]

\* the options of a command whose --project flag falls back to 'default'
commandLoadOptions_DefaultProject(globalOpts) ==
    [kind |-> "options",
     options |-> [configPath |-> globalOpts.config,
                  projectOverride |-> IF globalOpts.project = Undefined
                                      THEN "default" ELSE globalOpts.project]]

\* the options every command builds from the global flags
commandLoadOptions(globalOpts) ==
    [kind |-> "options",
     options |-> [configPath |-> globalOpts.config, projectOverride |-> globalOpts.project]]

\* the path every call of the model is given; the model keeps the one file
\* found there
ConfigPath == "/tmp/loom-test/config.json"

\* every state the file at the configuration path can be in
AllFiles ==
    {[state |-> "absent"], [state |-> "malformed"]}
    \cup {[state |-> "json", content |-> o] : o \in UNION {ObjectsOver(D) : D \in SUBSET Fields}}

\* the environments of the store specification: nothing set, one variable
\* set, every variable set
StoreEnvironments ==
    {[v \in D |-> EnvValue(v)] : D \in {{}, {"PROJECT_ID"}, EnvVars}}

\* loadConfig(path)
LoadByPath ==
    /\ lastOp' = [op |-> "load", source |-> [kind |-> "path", path |-> ConfigPath]]
    /\ result' = loadConfig(configFile, env, lastOp'.source)
    /\ UNCHANGED <<configFile, env, validateVars, natsVars, subjectVars, commandVars>>

\* loadConfig({configPath}) and loadConfig({configPath, projectOverride})
LoadByOptions ==
    /\ \E options \in {[configPath |-> ConfigPath]}
                      \cup {[configPath |-> ConfigPath, projectOverride |-> o] : o \in OverrideInputs} :
          lastOp' = [op |-> "load", source |-> [kind |-> "options", options |-> options]]
    /\ result' = loadConfig(configFile, env, lastOp'.source)
    /\ UNCHANGED <<configFile, env, validateVars, natsVars, subjectVars, commandVars>>

\* a command's action resolving its configuration from the global flags
CommandLoad ==
    /\ \E project \in OverrideInputs :
          lastOp' = [op |-> "command", globalOpts |-> [config |-> ConfigPath, project |-> project]]
    /\ result' = loadConfig(configFile, env, commandLoadOptions(lastOp'.globalOpts))
    /\ UNCHANGED <<configFile, env, validateVars, natsVars, subjectVars, commandVars>>

\* saveConfig(partial, path)
SaveConfig ==
    /\ \E partial \in Partials : lastOp' = [op |-> "save", partial |-> partial]
    /\ configFile' = saveConfig(configFile, lastOp'.partial)
    /\ result' = IF configFile.state = "malformed"
                 THEN [ok |-> FALSE, error |-> "ConfigParseError"]
                 ELSE [ok |-> TRUE]
    /\ UNCHANGED <<env, validateVars, natsVars, subjectVars, commandVars>>

\* setConfigValue(key, value, path): saveConfig({[key]: value}, path)
SetConfigValue ==
    /\ \E key \in Fields : \E value \in FieldValues(key) :
          lastOp' = [op |-> "set", key |-> key, partial |-> [x \in {key} |-> value]]
    /\ configFile' = saveConfig(configFile, lastOp'.partial)
    /\ result' = IF configFile.state = "malformed"
                 THEN [ok |-> FALSE, error |-> "ConfigParseError"]
                 ELSE [ok |-> TRUE]
    /\ UNCHANGED <<env, validateVars, natsVars, subjectVars, commandVars>>

\* getConfigValue(key, path): loadConfig(path)[key]
GetConfigValue ==
    /\ \E key \in Fields : lastOp' = [op |-> "get", key |-> key]
    /\ LET loaded == loadConfig(configFile, env, [kind |-> "path", path |-> ConfigPath])
       IN  result' = IF loaded.ok
                     THEN [ok |-> TRUE, value |-> Get(loaded.config, lastOp'.key)]
                     ELSE loaded
    /\ UNCHANGED <<configFile, env, validateVars, natsVars, subjectVars, commandVars>>

\* listConfig(path): loadConfig(path)
ListConfig ==
    /\ lastOp' = [op |-> "list"]
    /\ result' = loadConfig(configFile, env, [kind |-> "path", path |-> ConfigPath])
    /\ UNCHANGED <<configFile, env, validateVars, natsVars, subjectVars, commandVars>>

\* errors before validateConfig has been called on the candidate
NotValidated == <<"<not validated>">>

\* the variables of validateConfig while another specification runs
IdleValidate ==
    /\ candidate = EmptyObject
    /\ errors = NotValidated

\* the ConfigStore variables while another specification runs
IdleConfig ==
    /\ configFile = [state |-> "absent"]
    /\ env = EmptyObject
    /\ lastOp = [op |-> "none"]
    /\ result = [ok |-> TRUE]

\* the subject builders' variables while another specification runs
IdleSubjects ==
    /\ subjectCalls = <<>>
    /\ subjects = <<>>

\* the command's variables before an action has started
IdleCommand ==
    /\ invocation = [command |-> "none"]
    /\ pc = "idle"
    /\ cmdGlobalOpts = EmptyObject
    /\ cmdConfig = [ok |-> TRUE, config |-> EmptyObject]
    /\ loads = 0
    /\ requests = <<>>
    /\ response = [kind |-> "none"]
    /\ answered = [kind |-> "none"]
    /\ printed = <<>>
    /\ exitCode = -1
    /\ ending = "none"
    /\ remote = [kind |-> "none"]

----------------------------------------------------------------------------
(* The cached NATS connection: nats/client *)

\* most connections one process opens
MaxConnections == 2

\* the callers whose calls of the client may be in progress
Callers == {"c1", "c2"}

\* the two copies of the client in the repository
ClientSources == {"part_000", "part_001"}

\* the credentials file a configuration names, and what reading it yields
CredentialsPath == "/etc/loom/nats.creds"

CredentialsContent == "<contents of /etc/loom/nats.creds>"

\* the configurations getNATSConnection is called with
NatsConfigs ==
    {[natsUrl |-> u] : u \in {"nats://custom:4222", ""}}
    \cup {[natsUrl |-> u, natsCredentials |-> k] :
             u \in {"nats://custom:4222", ""}, k \in {"", CredentialsPath}}

\* the cache test negated on isClosed
cacheIsLive_ClosedOnly(cached, conns) ==
    /\ cached # 0
    /\ conns[cached].status = "closed"

\* cachedConnection && !cachedConnection.isClosed()
cacheIsLive(cached, conns) ==
    /\ cached # 0
    /\ conns[cached].status # "closed"

\* the ConnectionOptions built before any credentials are read
connectionOptions(config) ==
    [servers |-> IF Truthy(Get(config, "natsUrl")) THEN config.natsUrl
                 ELSE "nats://localhost:4222",
     name |-> "loom-shuttle",
     maxReconnectAttempts |-> 10,
     reconnectTimeWait |-> 1000,
     authenticator |-> "none"]

\* if (config.natsCredentials), in the copy that supports credentials
readsCredentials(source, config) ==
    /\ source = "part_001"
    /\ Truthy(Get(config, "natsCredentials"))

\* the message of the error thrown when the credentials file cannot be read,
\* as the parts of the template string
credentialsErrorMessage(path, cause) ==
    <<"Failed to read NATS credentials file: ", path, ": ", cause>>

\* what a call records when it returns or throws
Returned(c, frame, outcome, cacheAfter, attempted, connected) ==
    [caller |-> c, op |-> frame.op, config |-> frame.config, outcome |-> outcome,
     cacheBefore |-> frame.cacheBefore, statusBefore |-> frame.statusBefore,
     cacheAfter |-> cacheAfter, connected |-> connected,
     attempted |-> attempted, read |-> frame.read]

\* the state of the cached connection as a call finds it
cacheStatus == IF cachedConnection = 0 THEN "null" ELSE connections[cachedConnection].status

Idle == [pc |-> "idle"]

\* calls that are past the cache test and will open a connection
Connecting == {c \in Callers : frames[c].pc \in {"readFile", "connect"}}

\* getNATSConnection(config) up to its first await
GetStartWith(c, config) ==
    /\ frames[c].pc = "idle"
    /\ Len(connections) + Cardinality(Connecting) < MaxConnections
    /\ LET frame == [pc |-> IF readsCredentials(clientSource, config)
                            THEN "readFile" ELSE "connect",
                     op |-> "get", config |-> config,
                     opts |-> connectionOptions(config),
                     cacheBefore |-> cachedConnection,
                     statusBefore |-> cacheStatus,
                     read |-> "none"]
       IN  IF cacheIsLive(cachedConnection, connections)
           THEN /\ lastReturn' = Returned(c, frame,
                                    [kind |-> "connection", id |-> cachedConnection],
                                    cachedConnection, FALSE, 0)
                /\ UNCHANGED frames
           ELSE /\ frames' = [frames EXCEPT ![c] = frame]
                /\ UNCHANGED lastReturn
    /\ UNCHANGED <<clientSource, cachedConnection, connections, configVars, validateVars, subjectVars, commandVars>>

\* getNATSConnection called with each of the configurations
GetStart(c) == \E config \in NatsConfigs : GetStartWith(c, config)

\* await readFile(config.natsCredentials), then credsAuthenticator or throw
GetReadFile(c) ==
    /\ frames[c].pc = "readFile"
    /\ \E readable \in BOOLEAN :
          IF readable
          THEN /\ frames' = [frames EXCEPT ![c].pc = "connect",
                                           ![c].read = "ok",
                                           ![c].opts.authenticator = CredentialsContent]
               /\ UNCHANGED lastReturn
          ELSE /\ frames' = [frames EXCEPT ![c] = Idle]
               /\ lastReturn' = Returned(c, [frames[c] EXCEPT !.read = "failed"],
                                   [kind |-> "error",
                                    message |-> credentialsErrorMessage(
                                                    frames[c].config.natsCredentials, "ENOENT")],
                                   cachedConnection, FALSE, 0)
    /\ UNCHANGED <<clientSource, cachedConnection, connections, configVars, validateVars, subjectVars, commandVars>>

\* a connect whose failure empties the cache
GetConnect_ClearsOnFailure(c) ==
    /\ frames[c].pc = "connect"
    /\ \E reachable \in BOOLEAN :
          IF reachable
          THEN LET id == Len(connections) + 1
               IN  /\ connections' = Append(connections,
                                        [status |-> "open", log |-> <<>>,
                                         servers |-> frames[c].opts.servers,
                                         authenticator |-> frames[c].opts.authenticator])
                   /\ cachedConnection' = id
                   /\ lastReturn' = Returned(c, frames[c],
                                       [kind |-> "connection", id |-> id], id, TRUE, id)
          ELSE /\ lastReturn' = Returned(c, frames[c],
                                    [kind |-> "error", message |-> <<"connect failed">>],
                                    0, TRUE, 0)
               /\ cachedConnection' = 0
               /\ UNCHANGED connections
    /\ frames' = [frames EXCEPT ![c] = Idle]
    /\ UNCHANGED <<clientSource, configVars, validateVars, subjectVars, commandVars>>

\* cachedConnection = await connect(opts); return cachedConnection
GetConnect(c) ==
    /\ frames[c].pc = "connect"
    /\ \E reachable \in BOOLEAN :
          IF reachable
          THEN LET id == Len(connections) + 1
               IN  /\ connections' = Append(connections,
                                        [status |-> "open", log |-> <<>>,
                                         servers |-> frames[c].opts.servers,
                                         authenticator |-> frames[c].opts.authenticator])
                   /\ cachedConnection' = id
                   /\ lastReturn' = Returned(c, frames[c],
                                       [kind |-> "connection", id |-> id], id, TRUE, id)
          ELSE /\ lastReturn' = Returned(c, frames[c],
                                    [kind |-> "error", message |-> <<"connect failed">>],
                                    cachedConnection, TRUE, 0)
               /\ UNCHANGED <<cachedConnection, connections>>
    /\ frames' = [frames EXCEPT ![c] = Idle]
    /\ UNCHANGED <<clientSource, configVars, validateVars, subjectVars, commandVars>>

\* closeNATSConnection that closes without draining first
CloseStart_NoDrain(c) ==
    /\ frames[c].pc = "idle"
    /\ LET frame == [pc |-> "close", op |-> "close", config |-> EmptyObject,
                     cacheBefore |-> cachedConnection,
                     statusBefore |-> cacheStatus,
                     read |-> "none", target |-> cachedConnection,
                     draining |-> FALSE]
       IN  IF cacheIsLive(cachedConnection, connections)
           THEN /\ frames' = [frames EXCEPT ![c] = frame]
                /\ UNCHANGED <<lastReturn, connections>>
           ELSE /\ lastReturn' = Returned(c, frame, [kind |-> "void"], cachedConnection, FALSE, 0)
                /\ UNCHANGED <<frames, connections>>
    /\ UNCHANGED <<clientSource, cachedConnection, configVars, validateVars, subjectVars, commandVars>>

\* closeNATSConnection() up to its first await: the cache test and drain()
CloseStart(c) ==
    /\ frames[c].pc = "idle"
    /\ LET frame == [pc |-> "drain", op |-> "close", config |-> EmptyObject,
                     cacheBefore |-> cachedConnection,
                     statusBefore |-> cacheStatus,
                     read |-> "none", target |-> cachedConnection,
                     draining |-> FALSE]
       IN  IF cacheIsLive(cachedConnection, connections)
           THEN /\ frames' = [frames EXCEPT ![c] =
                                 [frame EXCEPT !.draining =
                                     connections[cachedConnection].status = "open"]]
                /\ connections' =
                      [connections EXCEPT
                          ![cachedConnection].log = Append(@, "drain"),
                          ![cachedConnection].status = "draining"]
                /\ UNCHANGED lastReturn
           ELSE /\ lastReturn' = Returned(c, frame, [kind |-> "void"], cachedConnection, FALSE, 0)
                /\ UNCHANGED <<frames, connections>>
    /\ UNCHANGED <<clientSource, cachedConnection, configVars, validateVars, subjectVars, commandVars>>

\* await cachedConnection.drain() settles: the drained connection is closed;
\* drain rejects on a connection that was already draining, and may reject
\* when the connection was closed under it
CloseDrainSettles(c) ==
    /\ frames[c].pc = "drain"
    /\ LET target == frames[c].target
           rejected == /\ frames' = [frames EXCEPT ![c] = Idle]
                       /\ lastReturn' = Returned(c, frames[c],
                                           [kind |-> "error", message |-> <<"drain rejected">>],
                                           cachedConnection, FALSE, 0)
                       /\ UNCHANGED connections
           resolved == /\ frames' = [frames EXCEPT ![c].pc = "close"]
                       /\ connections' = [connections EXCEPT ![target].status = "closed"]
                       /\ UNCHANGED lastReturn
       IN  IF ~frames[c].draining
           THEN rejected
           ELSE IF connections[target].status = "closed"
           THEN rejected \/ resolved
           ELSE resolved
    /\ UNCHANGED <<clientSource, cachedConnection, configVars, validateVars, subjectVars, commandVars>>

\* await cachedConnection.close(): the cache is read again
CloseClose(c) ==
    /\ frames[c].pc = "close"
    /\ IF cachedConnection = 0
       THEN /\ frames' = [frames EXCEPT ![c] = Idle]
            /\ lastReturn' = Returned(c, frames[c],
                                [kind |-> "error", message |-> <<"TypeError">>],
                                cachedConnection, FALSE, 0)
            /\ UNCHANGED connections
       ELSE /\ frames' = [frames EXCEPT ![c].pc = "clear"]
            /\ connections' =
                  [connections EXCEPT
                      ![cachedConnection].log = Append(@, "close"),
                      ![cachedConnection].status = "closed"]
            /\ UNCHANGED lastReturn
    /\ UNCHANGED <<clientSource, cachedConnection, configVars, validateVars, subjectVars, commandVars>>

\* cachedConnection = null, and closeNATSConnection returns
CloseClear(c) ==
    /\ frames[c].pc = "clear"
    /\ cachedConnection' = 0
    /\ frames' = [frames EXCEPT ![c] = Idle]
    /\ lastReturn' = Returned(c, frames[c], [kind |-> "void"], 0, FALSE, 0)
    /\ UNCHANGED <<clientSource, connections, configVars, validateVars, subjectVars, commandVars>>

\* the server, or the exhausted reconnect attempts, close a connection
RemoteClose ==
    /\ \E id \in 1..Len(connections) :
          /\ connections[id].status # "closed"
          /\ connections' = [connections EXCEPT ![id].status = "closed",
                                                ![id].log = Append(@, "remote-close")]
    /\ UNCHANGED <<clientSource, cachedConnection, frames, lastReturn,
                   configVars, validateVars, subjectVars, commandVars>>

\* the client's variables while another specification runs
IdleNats ==
    /\ clientSource = "part_001"
    /\ cachedConnection = 0
    /\ connections = <<>>
    /\ frames = [c \in Callers |-> Idle]
    /\ lastReturn = [op |-> "none"]

\* no call of the client is in progress
AllIdle == \A c \in Callers : frames[c].pc = "idle"

\* calls that run one at a time
SeqGetStart(c) == AllIdle /\ GetStart(c)

SeqCloseStart(c) == AllIdle /\ CloseStart(c)

(* SpecNats: getNATSConnection and closeNATSConnection, one call at a time *)
InitNats ==
    /\ clientSource \in ClientSources
    /\ cachedConnection = 0
    /\ connections = <<>>
    /\ frames = [c \in Callers |-> Idle]
    /\ lastReturn = [op |-> "none"]
    /\ IdleConfig
    /\ IdleValidate
    /\ IdleSubjects
    /\ IdleCommand

NextNats ==
    \/ \E c \in Callers :
          \/ SeqGetStart(c)
          \/ GetReadFile(c)
          \/ GetConnect(c)
          \/ SeqCloseStart(c)
          \/ CloseDrainSettles(c)
          \/ CloseClose(c)
          \/ CloseClear(c)
    \/ RemoteClose

SpecNats == InitNats /\ [][NextNats]_vars

(* SpecNatsInterleaved: the same calls, interleaved at their await points *)

\* most calls of drain / close one connection sees
MaxLog == 3

\* closeNATSConnection while every connection has seen fewer calls than that
BoundedCloseStart(c) ==
    /\ \A id \in 1..Len(connections) : Len(connections[id].log) < MaxLog
    /\ CloseStart(c)

NextNatsInterleaved ==
    \/ \E c \in Callers :
          \/ GetStart(c)
          \/ GetReadFile(c)
          \/ GetConnect(c)
          \/ BoundedCloseStart(c)
          \/ CloseDrainSettles(c)
          \/ CloseClose(c)
          \/ CloseClear(c)
    \/ RemoteClose

SpecNatsInterleaved == InitNats /\ [][NextNatsInterleaved]_vars

(* SpecLoad: loadConfig over every file and every environment *)
InitLoad ==
    /\ configFile \in AllFiles
    /\ env \in Environments
    /\ lastOp = [op |-> "none"]
    /\ result = [ok |-> TRUE]
    /\ IdleValidate
    /\ IdleNats
    /\ IdleSubjects
    /\ IdleCommand

NextLoad ==
    \/ LoadByPath
    \/ LoadByOptions
    \/ CommandLoad

SpecLoad == InitLoad /\ [][NextLoad]_vars

(* SpecStore: sequences of save / set / load / get / list on one path *)
InitStore ==
    /\ configFile \in InitialFiles
    /\ env \in StoreEnvironments
    /\ lastOp = [op |-> "none"]
    /\ result = [ok |-> TRUE]
    /\ IdleValidate
    /\ IdleNats
    /\ IdleSubjects
    /\ IdleCommand

NextStore ==
    \/ SaveConfig
    \/ SetConfigValue
    \/ LoadByPath
    \/ GetConfigValue
    \/ ListConfig

SpecStore == InitStore /\ [][NextStore]_vars

----------------------------------------------------------------------------
(* validateConfig *)

\* the violation messages, in rule order
MsgNatsUrl == "natsUrl must start with nats://"

MsgPriority == "defaultPriority must be between 1 and 10"

MsgBoundary == "defaultBoundary must be a non-empty string"

MsgOutputFormat == "outputFormat must be either \"table\" or \"json\""

\* String.prototype.startsWith
startsWith(s, prefix) ==
    /\ Len(s) >= Len(prefix)
    /\ SubSeq(s, 1, Len(prefix)) = prefix

\* the characters String.prototype.trim removes
WhiteSpace == {" ", "\t", "\n"}

\* String.prototype.trim: drop white space from both ends
RECURSIVE trimStart(_)
trimStart(s) ==
    IF Len(s) > 0 /\ SubSeq(s, 1, 1) \in WhiteSpace
    THEN trimStart(SubSeq(s, 2, Len(s)))
    ELSE s

RECURSIVE trimEnd(_)
trimEnd(s) ==
    IF Len(s) > 0 /\ SubSeq(s, Len(s), Len(s)) \in WhiteSpace
    THEN trimEnd(SubSeq(s, 1, Len(s) - 1))
    ELSE s

trim(s) == trimEnd(trimStart(s))

\* validateConfig that stops at the first violation
validateConfig_FirstOnly(config) ==
    IF "natsUrl" \in DOMAIN config /\ ~startsWith(config.natsUrl, "nats://")
    THEN <<MsgNatsUrl>>
    ELSE IF "defaultPriority" \in DOMAIN config
            /\ (config.defaultPriority < 1 \/ config.defaultPriority > 10)
    THEN <<MsgPriority>>
    ELSE IF "defaultBoundary" \in DOMAIN config /\ Len(trim(config.defaultBoundary)) = 0
    THEN <<MsgBoundary>>
    ELSE IF "outputFormat" \in DOMAIN config /\ config.outputFormat \notin {"table", "json"}
    THEN <<MsgOutputFormat>>
    ELSE <<>>

\* validateConfig that demands a transport endpoint
validateConfig_UrlRequired(config) ==
    (IF "natsUrl" \notin DOMAIN config \/ ~startsWith(config.natsUrl, "nats://")
     THEN <<MsgNatsUrl>> ELSE <<>>)
    \o (IF "defaultPriority" \in DOMAIN config
           /\ (config.defaultPriority < 1 \/ config.defaultPriority > 10)
        THEN <<MsgPriority>> ELSE <<>>)
    \o (IF "defaultBoundary" \in DOMAIN config /\ Len(trim(config.defaultBoundary)) = 0
        THEN <<MsgBoundary>> ELSE <<>>)
    \o (IF "outputFormat" \in DOMAIN config /\ config.outputFormat \notin {"table", "json"}
        THEN <<MsgOutputFormat>> ELSE <<>>)

\* validateConfig: every rule is checked, each on a field that is present
validateConfig(config) ==
    (IF "natsUrl" \in DOMAIN config /\ ~startsWith(config.natsUrl, "nats://")
     THEN <<MsgNatsUrl>> ELSE <<>>)
    \o (IF "defaultPriority" \in DOMAIN config
           /\ (config.defaultPriority < 1 \/ config.defaultPriority > 10)
        THEN <<MsgPriority>> ELSE <<>>)
    \o (IF "defaultBoundary" \in DOMAIN config /\ Len(trim(config.defaultBoundary)) = 0
        THEN <<MsgBoundary>> ELSE <<>>)
    \o (IF "outputFormat" \in DOMAIN config /\ config.outputFormat \notin {"table", "json"}
        THEN <<MsgOutputFormat>> ELSE <<>>)

\* the values a candidate gives each field validateConfig looks at
CandidateValues(f) ==
    CASE f = "natsUrl"         -> {"nats://localhost:4222", "http://localhost:4222", "nats://",
                                   "nats:/", "", " nats://x", "NATS://x"}
      [] f = "defaultPriority" -> {-1, 0, 1, 5, 10, 11, 15}
      [] f = "defaultBoundary" -> {"personal", "   ", "", " p ", "\t\n", "a b"}
      [] f = "outputFormat"    -> {"table", "json", "xml", "", "JSON"}

ValidatedFields == {"natsUrl", "defaultPriority", "defaultBoundary", "outputFormat"}

\* every candidate over a subset of the validated fields
Candidates ==
    LET RECURSIVE Build(_)
        Build(R) ==
            IF R = {} THEN {EmptyObject}
            ELSE LET f == CHOOSE g \in R : TRUE
                 IN  {Merge(o, [x \in {f} |-> v]) : o \in Build(R \ {f}), v \in CandidateValues(f)}
    IN  UNION {Build(D) : D \in SUBSET ValidatedFields}

\* validateConfig(candidate), once per candidate
Validate ==
    /\ errors = NotValidated
    /\ errors' = validateConfig(candidate)
    /\ UNCHANGED <<candidate, configVars, natsVars, subjectVars, commandVars>>

InitValidate ==
    /\ candidate \in Candidates
    /\ errors = NotValidated
    /\ IdleConfig
    /\ IdleNats
    /\ IdleSubjects
    /\ IdleCommand

NextValidate == Validate

SpecValidate == InitValidate /\ [][NextValidate]_vars

----------------------------------------------------------------------------
(* LoomSubjects: the subject builders of nats/client *)

\* the methods of LoomSubjects
SubjectMethods ==
    {"workSubmit", "workStatus", "workList", "workGet", "workCancel",
     "agentsList", "agentDetails", "agentShutdown",
     "targetsList", "targetsRegister", "targetsGet", "targetsUpdate",
     "targetsRemove", "targetsTest", "targetsEnable", "targetsDisable",
     "spinUpTrigger", "spinUpStatus", "spinUpList", "stats"}

\* the methods that take an entity id: workStatus(workItemId), agentDetails(agentGuid)
TakesId(method) == method \in {"workStatus", "agentDetails"}

\* what a method's template string puts after `loom.${this.projectId}.`
subjectTail(method, id) ==
    CASE method = "workSubmit"      -> "work.submit"
      [] method = "workStatus"      -> "work.status." \o id
      [] method = "workList"        -> "work.list"
      [] method = "workGet"         -> "work.get"
      [] method = "workCancel"      -> "work.cancel"
      [] method = "agentsList"      -> "agents.list"
      [] method = "agentDetails"    -> "agents." \o id
      [] method = "agentShutdown"   -> "agents.shutdown"
      [] method = "targetsList"     -> "targets.list"
      [] method = "targetsRegister" -> "targets.register"
      [] method = "targetsGet"      -> "targets.get"
      [] method = "targetsUpdate"   -> "targets.update"
      [] method = "targetsRemove"   -> "targets.remove"
      [] method = "targetsTest"     -> "targets.test"
      [] method = "targetsEnable"   -> "targets.enable"
      [] method = "targetsDisable"  -> "targets.disable"
      [] method = "spinUpTrigger"   -> "spinup.trigger"
      [] method = "spinUpStatus"    -> "spinup.status"
      [] method = "spinUpList"      -> "spinup.list"
      [] method = "stats"           -> "stats"

\* new LoomSubjects(projectId).method(id)
LoomSubjects(projectId, method, id) ==
    "loom." \o projectId \o "." \o subjectTail(method, id)

\* the project ids a builder is constructed with (projectId is any string)
ProjectIds == {"p1", "p2", "p1.agents"}

\* the entity ids a caller passes (ids come from the command line)
EntityIds == {"w1", "stats", "list"}

\* the calls of a builder: a project id, a method, and its id when it takes one
SubjectCallInputs ==
    {[projectId |-> p, method |-> m, id |-> i] :
        p \in ProjectIds, m \in {n \in SubjectMethods : TakesId(n)}, i \in EntityIds}
    \cup {[projectId |-> p, method |-> m, id |-> Undefined] :
        p \in ProjectIds, m \in {n \in SubjectMethods : ~TakesId(n)}}

\* two builders each answer one call
BuildSubjects ==
    /\ subjects = <<>>
    /\ subjects' = [i \in 1..2 |->
                       LoomSubjects(subjectCalls[i].projectId, subjectCalls[i].method,
                                    subjectCalls[i].id)]
    /\ UNCHANGED <<subjectCalls, configVars, validateVars, natsVars, commandVars>>

(* SpecSubjects: pairs of LoomSubjects calls *)
InitSubjects ==
    /\ subjectCalls \in [1..2 -> SubjectCallInputs]
    /\ subjects = <<>>
    /\ IdleConfig
    /\ IdleValidate
    /\ IdleNats
    /\ IdleCommand

NextSubjects == BuildSubjects

SpecSubjects == InitSubjects /\ [][NextSubjects]_vars

----------------------------------------------------------------------------
(* The command line: cli.ts *)

\* the value commander stores for a boolean flag that was given
Flag == "true"

\* the commands createCLI adds to the program that have an action
ProgramCommands ==
    {"submit", "agents", "work", "stats", "spin-up", "shutdown", "projects"}

\* the subcommands targetsCommand adds to `targets`
TargetsCommands ==
    {"targets list", "targets add", "targets show", "targets update",
     "targets remove", "targets test", "targets enable", "targets disable"}

\* the subcommands workCommand adds to `work`
WorkCommands == {"work list", "work show", "work cancel"}

Commands == ProgramCommands \cup TargetsCommands \cup WorkCommands

\* command.parent: the command the action's command was added to
parentOf(command) ==
    IF command \in ProgramCommands THEN "program"
    ELSE IF command \in TargetsCommands THEN "targets"
    ELSE IF command \in WorkCommands THEN "work"
    ELSE Undefined

\* parent.opts(): the options commander parsed for that command itself; the
\* global flags are options of the program only
optsOf(cmd, programOpts) ==
    IF cmd = "program" THEN programOpts ELSE EmptyObject

\* getGlobalOptions(command): the four flags read from command.parent.opts()
getGlobalOptions(command, programOpts) ==
    LET parent == parentOf(command)
    IN  IF parent = Undefined
        THEN EmptyObject
        ELSE [json    |-> Get(optsOf(parent, programOpts), "json"),
              config  |-> Get(optsOf(parent, programOpts), "config"),
              quiet   |-> Get(optsOf(parent, programOpts), "quiet"),
              project |-> Get(optsOf(parent, programOpts), "project")]

\* every object that gives each key of choices one of its values, the key
\* left out where the value is undefined
OptionsFrom(choices) ==
    LET RECURSIVE Build(_)
        Build(K) ==
            IF K = {} THEN {EmptyObject}
            ELSE LET k == CHOOSE x \in K : TRUE
                 IN  {IF v = Undefined THEN o ELSE Merge(o, [x \in {k} |-> v]) :
                         o \in Build(K \ {k}), v \in choices[k]}
    IN  Build(DOMAIN choices)

\* the global flags a user gives the program
ProgramOptions ==
    OptionsFrom([json    |-> {Undefined, Flag},
                 config  |-> {Undefined, ConfigPath},
                 quiet   |-> {Undefined, Flag},
                 project |-> {Undefined, "override-project"}])

\* the entity a command is given as its argument: <agent-guid>, <work-id>, <target>
EntityArgument == "e1"

\* the options and arguments a user gives each command
CommandOptions(command) ==
    CASE command = "shutdown" ->
            OptionsFrom([yes |-> {Undefined, Flag}, force |-> {Undefined, Flag}])
      [] command = "targets remove" ->
            OptionsFrom([yes |-> {Undefined, Flag}])
      [] command = "spin-up" ->
            OptionsFrom([target     |-> {Undefined, "alpha"},
                         type       |-> {Undefined, "claude-code"},
                         capability |-> {Undefined, "typescript"},
                         boundary   |-> {Undefined, "production"}])
      [] command = "targets update" ->
            OptionsFrom([capabilities |-> {Undefined, "typescript"},
                         boundaries   |-> {Undefined, "production"},
                         description  |-> {Undefined, "", "build host"}])
      [] command = "targets add" ->
            OptionsFrom([mechanism |-> {"ssh", "github-actions", "local", "webhook", "kubernetes"},
                         host      |-> {Undefined, "build.example"},
                         repo      |-> {Undefined, "org/repo"},
                         workflow  |-> {Undefined, "agent.yml"},
                         command   |-> {Undefined, "run-agent"},
                         url       |-> {Undefined, "https://hook.example"}])
      [] command = "submit" ->
            OptionsFrom([description |-> {Undefined, "fix the build"},
                         boundary    |-> {Undefined, "production", "  "},
                         capability  |-> {Undefined, "typescript"},
                         priority    |-> {Undefined, "7", "0", "11", "-2", "high"},
                         agentType   |-> {Undefined, "claude-code", "gpt"},
                         interactive |-> {Undefined, Flag}])
      [] OTHER -> {EmptyObject}

\* the command lines of the model
Invocations ==
    UNION {{[command |-> c, programOpts |-> g, arg |-> EntityArgument, options |-> o] :
               g \in ProgramOptions, o \in CommandOptions(c)} : c \in Commands}

----------------------------------------------------------------------------
(* The transport as the commands use it: api/client through its callers *)

\* response.data of an envelope that carries none
UndefinedData == [undefined |-> TRUE]

\* the client method of each command that sends one request built from its
\* argument and options
operationOf(command) ==
    CASE command = "agents"          -> "listAgents"
      [] command = "shutdown"        -> "shutdownAgent"
      [] command = "stats"           -> "getStats"
      [] command = "projects"        -> "listProjects"
      [] command = "work"            -> "listWork"
      [] command = "work list"       -> "listWork"
      [] command = "work show"       -> "getWork"
      [] command = "work cancel"     -> "cancelWork"
      [] command = "targets list"    -> "listTargets"
      [] command = "targets add"     -> "createTarget"
      [] command = "targets show"    -> "getTarget"
      [] command = "targets update"  -> "updateTarget"
      [] command = "targets remove"  -> "deleteTarget"
      [] command = "targets test"    -> "testTarget"
      [] command = "targets enable"  -> "enableTarget"
      [] command = "targets disable" -> "disableTarget"

\* the payloads a successful reply to each method carries
DataOf(op) ==
    CASE op = "listAgents" ->
            {[agents |-> <<>>], [agents |-> <<[guid |-> "a1"]>>]}
      [] op = "listTargets" ->
            {[targets |-> <<>>],
             [targets |-> <<[id |-> "t1", name |-> "alpha"], [id |-> "t2", name |-> "beta"]>>],
             [targets |-> <<[name |-> "gamma"]>>]}
      [] op = "listWork" ->
            {[workItems |-> <<>>], [workItems |-> <<[id |-> "w1"]>>]}
      [] op = "listProjects" ->
            {[projects |-> <<>>], [projects |-> <<"p1", "p2">>]}
      [] op = "shutdownAgent" ->
            {[success |-> TRUE], [success |-> FALSE, message |-> "agent is busy"]}
      [] op = "spinUpTarget" ->
            {[success |-> TRUE, targetName |-> "alpha"],
             [status |-> "in-progress", targetName |-> "alpha"],
             [status |-> "failed", error |-> "no capacity"],
             [success |-> FALSE]}
      [] op = "testTarget" ->
            {[healthy |-> TRUE], [healthy |-> FALSE, error |-> "unreachable"]}
      [] OTHER ->
            {[id |-> "e1", name |-> "alpha"]}

\* the failure variant of the envelope: a status, and an error text that may
\* be absent or empty
FailureEnvelopes ==
    {[ok |-> FALSE, status |-> s] : s \in {404, 500}}
    \cup {[ok |-> FALSE, status |-> s, error |-> e] :
             s \in {404, 500}, e \in {"", "remote says no"}}

\* every envelope a call of the method can resolve to
Replies(op) ==
    FailureEnvelopes
    \cup {[ok |-> TRUE, status |-> 200, data |-> d] : d \in DataOf(op) \cup {UndefinedData}}

\* o.k === v on a payload that may lack the key
Has(o, k, v) == k \in DOMAIN o /\ o[k] = v

\* response.data?.key || []
listOr(data, key) == IF key \in DOMAIN data THEN data[key] ELSE <<>>

----------------------------------------------------------------------------
(* The output helpers as the commands call them: utils/output, ora *)

\* a call of a helper with a text: spinner.start/succeed/fail, error,
\* success, warning, info, console.log
Say(via, text) == [via |-> via, text |-> text]

\* a call of a helper with a payload: output, formatKeyValue, createTable
Show(via, data) == [via |-> via, data |-> data]

\* spinner.isSpinning: started and neither succeeded nor failed since
Spinning(p) ==
    \E i \in 1..Len(p) :
        /\ p[i].via = "spinner.start"
        /\ \A j \in (i + 1)..Len(p) : p[j].via \notin {"spinner.succeed", "spinner.fail"}

\* the pieces of an action's body: how it leaves the try block
Exit(p, code) == [kind |-> "exit", printed |-> p, code |-> code]

Return(p) == [kind |-> "return", printed |-> p]

Throw(p, message) == [kind |-> "throw", printed |-> p, message |-> message]

Prompt(p) == [kind |-> "prompt", printed |-> p]

Send(p, op, args) == [kind |-> "send", printed |-> p, request |-> [op |-> op, args |-> args]]

\* if (!globalOpts.quiet) spinner.start(text)
startSpinner(p, g, text) ==
    IF Truthy(g.quiet) THEN p ELSE Append(p, Say("spinner.start", text))

\* if (!globalOpts.quiet) spinner.succeed(text)
succeedSpinner(p, g, text) ==
    IF Truthy(g.quiet) THEN p ELSE Append(p, Say("spinner.succeed", text))

\* the text each action gives spinner.start
startText(command) ==
    CASE command = "agents"          -> "Fetching agents..."
      [] command = "shutdown"        -> "Sending shutdown request..."
      [] command = "submit"          -> "Submitting work..."
      [] command = "spin-up"         -> "Triggering agent spin-up..."
      [] command = "stats"           -> "Fetching statistics..."
      [] command = "projects"        -> "Fetching projects..."
      [] command \in {"work", "work list"} -> "Fetching work items..."
      [] command = "work show"       -> "Fetching work item..."
      [] command = "work cancel"     -> "Cancelling work item..."
      [] command = "targets list"    -> "Fetching targets..."
      [] command = "targets add"     -> "Creating target..."
      [] command = "targets show"    -> "Fetching target..."
      [] command = "targets update"  -> "Updating target..."
      [] command = "targets remove"  -> "Removing target..."
      [] command = "targets test"    -> "Testing target..."
      [] command = "targets enable"  -> "Enabling target..."
      [] command = "targets disable" -> "Disabling target..."

\* the text each action's catch block gives spinner.fail
failText(command) ==
    CASE command = "agents"          -> "Failed to fetch agents"
      [] command = "shutdown"        -> "Failed to send shutdown request"
      [] command = "submit"          -> "Failed to submit work"
      [] command = "spin-up"         -> "Failed to trigger spin-up"
      [] command = "stats"           -> "Failed to fetch statistics"
      [] command = "projects"        -> "Failed to fetch projects"
      [] command \in {"work", "work list"} -> "Failed to fetch work items"
      [] command = "work show"       -> "Failed to fetch work item"
      [] command = "work cancel"     -> "Failed to cancel work item"
      [] command = "targets list"    -> "Failed to fetch targets"
      [] command = "targets add"     -> "Failed to create target"
      [] command = "targets show"    -> "Failed to fetch target"
      [] command = "targets update"  -> "Failed to update target"
      [] command = "targets remove"  -> "Failed to remove target"
      [] command = "targets test"    -> "Failed to test target"
      [] command = "targets enable"  -> "Failed to enable target"
      [] command = "targets disable" -> "Failed to disable target"

\* catch (err): spinner.fail when spinning, error(`Error: ${err.message}`, {}),
\* process.exit(1); a body that did not throw is left as it is
catch(command, r) ==
    IF r.kind = "throw"
    THEN Exit((IF Spinning(r.printed)
               THEN Append(r.printed, Say("spinner.fail", failText(command)))
               ELSE r.printed)
                  \o <<Say("error", "Error: " \o r.message)>>,
              1)
    ELSE r

\* the message of the error an action throws for a failure envelope, with
\* every status treated alike
failureMessage_NoNotFound(command, resp, arg) ==
    IF Truthy(Get(resp, "error")) THEN resp.error ELSE "HTTP " \o ToString(resp.status)

\* the message of the error an action throws for a failure envelope:
\* response.error || `HTTP ${response.status}`, and in targets show
\* `Target not found: ${target}` for status 404
failureMessage(command, resp, arg) ==
    IF command = "targets show" /\ resp.status = 404
    THEN "Target not found: " \o arg
    ELSE IF Truthy(Get(resp, "error")) THEN resp.error ELSE "HTTP " \o ToString(resp.status)

----------------------------------------------------------------------------
(* The actions of the commands: commands/*.ts *)

\* the value of a decimal digit character, -1 for any other character
digitValue(ch) ==
    IF \E d \in 0..9 : SubSeq("0123456789", d + 1, d + 1) = ch
    THEN CHOOSE d \in 0..9 : SubSeq("0123456789", d + 1, d + 1) = ch
    ELSE -1

\* parseInt(s) as commander applies it to --priority: leading white space, an
\* optional sign, then the longest run of digits; NaN when there is none
parseInt(s) ==
    LET t      == trimStart(s)
        signed == Len(t) > 0 /\ SubSeq(t, 1, 1) \in {"-", "+"}
        body   == IF signed THEN SubSeq(t, 2, Len(t)) ELSE t
        RECURSIVE Scan(_, _, _)
        Scan(i, n, seen) ==
            IF i > Len(body) \/ digitValue(SubSeq(body, i, i)) = -1
            THEN [nan |-> ~seen, value |-> n]
            ELSE Scan(i + 1, 10 * n + digitValue(SubSeq(body, i, i)), TRUE)
        scanned == Scan(1, 0, FALSE)
    IN  IF signed /\ SubSeq(t, 1, 1) = "-"
        THEN [scanned EXCEPT !.value = 0 - @]
        ELSE scanned

\* options.interactive || !description || !options.boundary || !options.capability
needsInteractive(o) ==
    \/ Truthy(Get(o, "interactive"))
    \/ ~Truthy(Get(o, "description"))
    \/ ~Truthy(Get(o, "boundary"))
    \/ ~Truthy(Get(o, "capability"))

\* options.priority || config.defaultPriority || 5
submitPriority(o, cfg) ==
    LET parsed == IF "priority" \in DOMAIN o THEN parseInt(o.priority)
                  ELSE [nan |-> TRUE, value |-> 0]
    IN  IF ~parsed.nan /\ parsed.value # 0 THEN parsed.value
        ELSE IF "defaultPriority" \in DOMAIN cfg /\ cfg.defaultPriority # 0
        THEN cfg.defaultPriority
        ELSE 5

\* the agent types submit accepts
validAgentTypes == {"copilot-cli", "claude-code"}

\* submit that tests the boundary for emptiness only, without trimming it
submitChecked_Untrimmed(inv, g, p, workDetails) ==
    LET o == inv.options
    IN  IF ~Truthy(workDetails.boundary)
        THEN Exit(Append(p, Say("error", "Boundary must be a non-empty string")), 1)
        ELSE IF Truthy(Get(o, "agentType")) /\ o.agentType \notin validAgentTypes
        THEN Exit(p \o <<Say("error", "Invalid agent type: " \o o.agentType),
                         Say("error", "Valid values: copilot-cli, claude-code")>>, 1)
        ELSE Send(startSpinner(p, g, "Submitting work..."), "submitWork",
                  [description |-> workDetails.description,
                   boundary    |-> workDetails.boundary,
                   capability  |-> workDetails.capability,
                   priority    |-> workDetails.priority,
                   taskId      |-> "<randomUUID>",
                   deadline    |-> Get(o, "deadline")])

\* submit from the boundary check to the submitWork call
submitChecked(inv, g, p, workDetails) ==
    LET o == inv.options
    IN  IF ~Truthy(workDetails.boundary) \/ Len(trim(workDetails.boundary)) = 0
        THEN Exit(Append(p, Say("error", "Boundary must be a non-empty string")), 1)
        ELSE IF Truthy(Get(o, "agentType")) /\ o.agentType \notin validAgentTypes
        THEN Exit(p \o <<Say("error", "Invalid agent type: " \o o.agentType),
                         Say("error", "Valid values: copilot-cli, claude-code")>>, 1)
        ELSE Send(startSpinner(p, g, "Submitting work..."), "submitWork",
                  [description |-> workDetails.description,
                   boundary    |-> workDetails.boundary,
                   capability  |-> workDetails.capability,
                   priority    |-> workDetails.priority,
                   taskId      |-> "<randomUUID>",
                   deadline    |-> Get(o, "deadline")])

\* submit from loadConfig to the prompt, a validation exit, or the request
submitBefore(inv, g, cfg) ==
    LET o == inv.options
    IN  IF needsInteractive(o) /\ ~Truthy(g.json)
        THEN Prompt(<<>>)
        ELSE IF ~Truthy(Get(o, "description"))
        THEN Exit(<<Say("error", "Description is required (use --interactive for prompts)")>>, 1)
        ELSE IF ~Truthy(Get(o, "boundary"))
        THEN Exit(<<Say("error", "Boundary is required (use --boundary or --interactive)")>>, 1)
        ELSE IF ~Truthy(Get(o, "capability"))
        THEN Exit(<<Say("error", "Capability is required (use --capability or --interactive)")>>, 1)
        ELSE submitChecked(inv, g, <<>>,
                           [description |-> o.description,
                            boundary    |-> o.boundary,
                            capability  |-> o.capability,
                            priority    |-> submitPriority(o, cfg)])

\* the mechanism configuration targets add builds
mechanismConfig(o) ==
    CASE o.mechanism = "ssh" ->
            [mechanism |-> o.mechanism, host |-> Get(o, "host"),
             user |-> IF Truthy(Get(o, "user")) THEN o.user ELSE "root",
             command |-> Get(o, "command")]
      [] o.mechanism = "github-actions" ->
            [mechanism |-> o.mechanism, repo |-> Get(o, "repo"),
             workflowFile |-> Get(o, "workflow")]
      [] o.mechanism = "local" ->
            [mechanism |-> o.mechanism, command |-> Get(o, "command")]
      [] o.mechanism = "webhook" ->
            [mechanism |-> o.mechanism, url |-> Get(o, "url")]
      [] OTHER -> [mechanism |-> o.mechanism]

\* targets add from loadConfig to a validation exit or the request
targetsAddBefore(inv, g) ==
    LET o == inv.options
    IN  IF o.mechanism = "ssh" /\ ~Truthy(Get(o, "host"))
        THEN Exit(<<Say("error", "--host is required for ssh mechanism")>>, 1)
        ELSE IF o.mechanism = "github-actions"
                  /\ (~Truthy(Get(o, "repo")) \/ ~Truthy(Get(o, "workflow")))
        THEN Exit(<<Say("error", "--repo and --workflow are required for github-actions mechanism")>>, 1)
        ELSE IF o.mechanism = "local" /\ ~Truthy(Get(o, "command"))
        THEN Exit(<<Say("error", "--command is required for local mechanism")>>, 1)
        ELSE IF o.mechanism = "webhook" /\ ~Truthy(Get(o, "url"))
        THEN Exit(<<Say("error", "--url is required for webhook mechanism")>>, 1)
        ELSE Send(startSpinner(<<>>, g, startText(inv.command)), "createTarget",
                  [name |-> "alpha", agentType |-> "claude-code",
                   mechanism |-> o.mechanism, config |-> mechanismConfig(o)])

\* the updates object targets update builds from its options
targetUpdates(o) ==
    [k \in {f \in {"capabilities", "boundaries"} : Truthy(Get(o, f))}
           \cup {f \in {"description"} : Get(o, f) # Undefined} |-> o[k]]

\* targets update that sends its request even when updates is empty
targetsUpdateBefore_Unchecked(inv, g) ==
    Send(startSpinner(<<>>, g, startText(inv.command)), "updateTarget",
         [id |-> inv.arg, updates |-> targetUpdates(inv.options)])

\* targets update from loadConfig to a validation exit or the request
targetsUpdateBefore(inv, g) ==
    IF DOMAIN targetUpdates(inv.options) = {}
    THEN Exit(<<Say("error", "No updates specified")>>, 1)
    ELSE Send(startSpinner(<<>>, g, startText(inv.command)), "updateTarget",
              [id |-> inv.arg, updates |-> targetUpdates(inv.options)])

\* spin-up that lists the targets first even when --target names one
spinUpBefore_AlwaysList(inv, g) ==
    LET o == inv.options
    IN  IF /\ ~Truthy(Get(o, "target"))
           /\ ~Truthy(Get(o, "type"))
           /\ ~Truthy(Get(o, "capability"))
           /\ ~Truthy(Get(o, "boundary"))
        THEN Exit(<<Say("error", "Must provide either --target or at least one filter (--type, --capability, --boundary)")>>, 1)
        ELSE Send(startSpinner(<<>>, g, startText(inv.command)), "listTargets",
                  [type |-> Get(o, "type"), capability |-> Get(o, "capability")])

\* spin-up from loadConfig to a validation exit or its first request
spinUpBefore(inv, g) ==
    LET o == inv.options
    IN  IF /\ ~Truthy(Get(o, "target"))
           /\ ~Truthy(Get(o, "type"))
           /\ ~Truthy(Get(o, "capability"))
           /\ ~Truthy(Get(o, "boundary"))
        THEN Exit(<<Say("error", "Must provide either --target or at least one filter (--type, --capability, --boundary)")>>, 1)
        ELSE IF Truthy(Get(o, "target"))
        THEN Send(startSpinner(<<>>, g, startText(inv.command)), "spinUpTarget",
                  [targetId |-> o.target])
        ELSE Send(startSpinner(<<>>, g, startText(inv.command)), "listTargets",
                  [type |-> Get(o, "type"), capability |-> Get(o, "capability")])

\* options.force ? false : options.graceful !== false (graceful defaults to true)
gracefulOf(o) == ~Truthy(Get(o, "force"))

\* shutdown from the confirmation to the request
shutdownSend(inv, g, p) ==
    Send(startSpinner(p, g, startText(inv.command)), "shutdownAgent",
         [agentGuid |-> inv.arg, graceful |-> gracefulOf(inv.options)])

\* targets remove from the confirmation to the request
targetsRemoveSend(inv, g, p) ==
    Send(startSpinner(p, g, startText(inv.command)), "deleteTarget", [id |-> inv.arg])

\* if (!options.yes && !globalOpts.json): the action asks before it sends
asksConfirmation(inv, g) ==
    ~Truthy(Get(inv.options, "yes")) /\ ~Truthy(g.json)

\* the commands that list: their arguments are the filters given as options
ListCommands == {"agents", "projects", "work", "work list", "targets list"}

\* an action from its loadConfig call to its first await or its end
beforeRequest(inv, g, cfg) ==
    CASE inv.command = "submit"         -> submitBefore(inv, g, cfg)
      [] inv.command = "targets add"    -> targetsAddBefore(inv, g)
      [] inv.command = "targets update" -> targetsUpdateBefore(inv, g)
      [] inv.command = "spin-up"        -> spinUpBefore(inv, g)
      [] inv.command = "shutdown" ->
            IF asksConfirmation(inv, g) THEN Prompt(<<>>) ELSE shutdownSend(inv, g, <<>>)
      [] inv.command = "targets remove" ->
            IF asksConfirmation(inv, g) THEN Prompt(<<>>) ELSE targetsRemoveSend(inv, g, <<>>)
      [] OTHER ->
            Send(startSpinner(<<>>, g, startText(inv.command)), operationOf(inv.command),
                 IF inv.command \in ListCommands
                 THEN [filters |-> inv.options]
                 ELSE [id |-> inv.arg])

\* what promptWorkSubmission resolves to
PromptedWorkDetails ==
    {[description |-> "fix the build", boundary |-> b, capability |-> "typescript",
      priority |-> 5] : b \in {"production", "", "  "}}

\* what the awaited prompt of a command resolves to: confirm's answer, or
\* the work details
PromptAnswers(command) ==
    IF command = "submit"
    THEN {[details |-> d] : d \in PromptedWorkDetails}
    ELSE {[confirmed |-> b] : b \in BOOLEAN}

\* an action that sends its request whatever the answer to its prompt
afterPrompt_AnswerIgnored(inv, g, p, answer) ==
    CASE inv.command = "submit" -> submitChecked(inv, g, p, answer.details)
      [] inv.command = "shutdown" -> shutdownSend(inv, g, p)
      [] inv.command = "targets remove" -> targetsRemoveSend(inv, g, p)

\* an action from the answer to its prompt to its next await or its end
afterPrompt(inv, g, p, answer) ==
    CASE inv.command = "submit" -> submitChecked(inv, g, p, answer.details)
      [] inv.command = "shutdown" ->
            IF answer.confirmed
            THEN shutdownSend(inv, g, p)
            ELSE Exit(Append(p, Say("warning", "Shutdown cancelled")), 0)
      [] inv.command = "targets remove" ->
            IF answer.confirmed
            THEN targetsRemoveSend(inv, g, p)
            ELSE Return(Append(p, Say("console.log", "Cancelled.")))

\* per listing command: the key of the list in the payload, the noun of the
\* spinner text, and the line printed for an empty list
listKey(command) ==
    CASE command = "agents"       -> "agents"
      [] command = "projects"     -> "projects"
      [] command = "targets list" -> "targets"
      [] OTHER                    -> "workItems"

listNoun(command) ==
    CASE command = "agents"       -> "agent(s)"
      [] command = "projects"     -> "project(s)"
      [] command = "targets list" -> "target(s)"
      [] OTHER                    -> "work item(s)"

emptyListText(command) ==
    CASE command = "agents"       -> "No agents found"
      [] command = "projects"     -> "No active projects"
      [] command = "targets list" -> "No targets found"
      [] OTHER                    -> "No work items found"

\* agents, projects, work list, targets list after a successful reply
renderList(command, g, p, data) ==
    LET items == listOr(data, listKey(command))
        p1    == succeedSpinner(p, g, "Found " \o ToString(Len(items)) \o " " \o listNoun(command))
    IN  IF Truthy(g.json)
        THEN Return(Append(p1, Show("output",
                 IF command = "projects"
                 THEN [projects |-> items, count |-> Len(items)]
                 ELSE [k \in {listKey(command)} |-> items])))
        ELSE IF Len(items) = 0
        THEN Return(Append(p1, Say("console.log", emptyListText(command))))
        ELSE Return(Append(p1, Show("createTable", items)))

\* the commands that print one payload: the spinner text, and what they
\* print in table mode before and after they first read a field of it
EntityCommands == {"submit", "stats", "work show", "targets show", "targets add"}

entitySucceedText(command) ==
    CASE command = "submit"       -> "Work submitted successfully"
      [] command = "stats"        -> "Statistics retrieved"
      [] command = "work show"    -> "Work item found"
      [] command = "targets show" -> "Target found"
      [] command = "targets add"  -> "Target created"

entityHeading(command) ==
    CASE command = "submit"       -> <<Say("success", "Work submitted!")>>
      [] command = "stats"        -> <<Say("console.log", "Coordinator Statistics"),
                                       Say("console.log", "Work Items:")>>
      [] command = "work show"    -> <<Say("console.log", "Work Item Details:")>>
      [] command = "targets show" -> <<Say("console.log", "Target Details:")>>
      [] command = "targets add"  -> <<>>

entityDetails(command, data) ==
    CASE command = "submit" ->
            <<Show("formatKeyValue", data),
              Say("info", "Track progress with: shuttle work show " \o data.id)>>
      [] command = "targets add" ->
            <<Say("success", "Target \"" \o data.name \o "\" created successfully"),
              Show("formatKeyValue", data)>>
      [] OTHER -> <<Show("formatKeyValue", data)>>

\* submit, stats, work show, targets show, targets add after a successful
\* reply; reading a field of a payload that is undefined throws
renderEntity(command, g, p, data) ==
    LET p1 == succeedSpinner(p, g, entitySucceedText(command))
    IN  IF Truthy(g.json)
        THEN Return(Append(p1, Show("output", data)))
        ELSE IF data = UndefinedData
        THEN Throw(p1 \o entityHeading(command), "TypeError")
        ELSE Return(p1 \o entityHeading(command) \o entityDetails(command, data))

\* the commands that acknowledge: the spinner text and the success line
ackSucceedText(command) ==
    CASE command = "work cancel"     -> "Work item cancelled"
      [] command = "targets update"  -> "Target updated"
      [] command = "targets remove"  -> "Target removed"
      [] command = "targets enable"  -> "Target enabled"
      [] command = "targets disable" -> "Target disabled"

ackText(command, arg) ==
    CASE command = "work cancel"     -> "Work item " \o arg \o " cancelled"
      [] command = "targets update"  -> "Target \"" \o arg \o "\" updated"
      [] command = "targets remove"  -> "Target \"" \o arg \o "\" removed"
      [] command = "targets enable"  -> "Target \"" \o arg \o "\" enabled"
      [] command = "targets disable" -> "Target \"" \o arg \o "\" disabled"

\* work cancel, targets update (which print response.data under --json) and
\* targets remove, enable, disable (which always print the success line)
renderAck(command, g, p, data, arg) ==
    LET p1 == succeedSpinner(p, g, ackSucceedText(command))
    IN  IF command \in {"work cancel", "targets update"} /\ Truthy(g.json)
        THEN Return(Append(p1, Show("output", data)))
        ELSE Return(Append(p1, Say("success", ackText(command, arg))))

\* targets test after a successful reply
renderTest(g, p, data) ==
    IF ~Truthy(g.quiet) /\ data = UndefinedData
    THEN Throw(p, "TypeError")
    ELSE LET p1 == IF Truthy(g.quiet) THEN p
                   ELSE IF Has(data, "healthy", TRUE)
                   THEN Append(p, Say("spinner.succeed", "Target is healthy"))
                   ELSE Append(p, Say("spinner.fail", "Target health check failed"))
         IN  IF Truthy(g.json)
             THEN Return(Append(p1, Show("output", data)))
             ELSE IF data = UndefinedData
             THEN Throw(p1, "TypeError")
             ELSE Return(Append(p1, Show("formatKeyValue", data)))

\* shutdown after a successful reply
renderShutdown(inv, g, p, data) ==
    LET p1 == succeedSpinner(p, g, "Shutdown request sent")
    IN  IF Truthy(g.json)
        THEN Return(Append(p1, Show("output", data)))
        ELSE IF ~Has(data, "success", FALSE)
        THEN Return(Append(p1, Say("success", "Agent shutdown requested"))
                      \o (IF gracefulOf(inv.options)
                          THEN <<Say("warning", "Agent will shutdown after completing current work (max 30s)")>>
                          ELSE <<>>))
        ELSE Exit(Append(p1, Say("error", "Shutdown failed: "
                      \o (IF Truthy(Get(data, "message")) THEN data.message
                          ELSE "Unknown error"))), 1)

\* result.success === true || result.status === 'in-progress' || 'completed'
isSuccess(data) ==
    \/ Has(data, "success", TRUE)
    \/ Has(data, "status", "in-progress")
    \/ Has(data, "status", "completed")

\* spin-up after a successful reply to spinUpTarget
renderSpinUp(g, p, data) ==
    IF data = UndefinedData
    THEN Throw(p, "TypeError")
    ELSE LET p1 == IF Truthy(g.quiet) THEN p
                   ELSE IF isSuccess(data)
                   THEN Append(p, Say("spinner.succeed", "Agent spin-up initiated"))
                   ELSE Append(p, Say("spinner.fail", "Spin-up failed"))
         IN  IF Truthy(g.json)
             THEN Return(Append(p1, Show("output", data)))
             ELSE IF isSuccess(data)
             THEN Return(p1 \o <<Say("success", "Agent spin-up triggered successfully!"),
                                 Show("formatKeyValue", data)>>)
             ELSE Exit(Append(p1, Say("error", "Spin-up failed: "
                          \o (IF Truthy(Get(data, "error")) THEN data.error
                              ELSE IF Truthy(Get(data, "message")) THEN data.message
                              ELSE "Unknown error"))), 1)

\* spin-up after a successful reply to its listTargets query: the first
\* target is triggered, none is an error
spinUpSelect(g, p, data) ==
    LET targets == listOr(data, "targets")
    IN  IF Len(targets) = 0
        THEN Exit((IF ~Truthy(g.quiet) /\ Spinning(p)
                   THEN Append(p, Say("spinner.fail", "No matching targets found"))
                   ELSE p)
                      \o <<Say("error", "No matching targets found")>>, 1)
        ELSE Send(Append(p, Say("info", "Selected target: " \o targets[1].name)),
                  "spinUpTarget",
                  [targetId |-> IF Truthy(Get(targets[1], "id"))
                                THEN targets[1].id ELSE targets[1].name])

\* an action from the reply to its request to its next await or its end
afterResponse(inv, g, p, request, resp) ==
    IF ~resp.ok
    THEN Throw(p, failureMessage(inv.command, resp, inv.arg))
    ELSE CASE inv.command = "spin-up" ->
                 IF request.op = "listTargets"
                 THEN spinUpSelect(g, p, resp.data)
                 ELSE renderSpinUp(g, p, resp.data)
           [] inv.command = "shutdown"     -> renderShutdown(inv, g, p, resp.data)
           [] inv.command = "targets test" -> renderTest(g, p, resp.data)
           [] inv.command \in ListCommands -> renderList(inv.command, g, p, resp.data)
           [] inv.command \in EntityCommands -> renderEntity(inv.command, g, p, resp.data)
           [] OTHER -> renderAck(inv.command, g, p, resp.data, inv.arg)

\* the state an action is left in by a piece of its body; n is the number
\* of loadConfig calls made so far
Apply(r, n) ==
    /\ printed' = r.printed
    /\ CASE r.kind = "send" ->
               /\ requests' = Append(requests, [op |-> r.request.op, args |-> r.request.args,
                                                loads |-> n])
               /\ pc' = "request"
               /\ UNCHANGED <<exitCode, ending>>
         [] r.kind = "prompt" ->
               /\ pc' = "prompt"
               /\ UNCHANGED <<requests, exitCode, ending>>
         [] r.kind = "exit" ->
               /\ pc' = "done"
               /\ exitCode' = r.code
               /\ ending' = "exit"
               /\ UNCHANGED requests
         [] r.kind = "return" ->
               /\ pc' = "done"
               /\ exitCode' = 0
               /\ ending' = "return"
               /\ UNCHANGED requests

\* the action of a command from its start to its first await: getGlobalOptions,
\* loadConfig, the checks of its options, then a prompt or a request
Start(inv) ==
    LET g      == getGlobalOptions(inv.command, inv.programOpts)
        loaded == loadConfig(configFile, env, commandLoadOptions(g))
    IN  /\ invocation' = inv
        /\ cmdGlobalOpts' = g
        /\ cmdConfig' = loaded
        /\ loads' = loads + 1
        /\ Apply(catch(inv.command,
                       IF loaded.ok
                       THEN beforeRequest(inv, g, loaded.config)
                       ELSE Throw(<<>>, loaded.error)),
                 loads + 1)

\* the program parses a command line and runs the command's action
Invoke ==
    /\ pc = "idle"
    /\ \E inv \in Invocations : Start(inv)
    /\ UNCHANGED <<response, answered, remote, configVars, validateVars, natsVars, subjectVars>>

\* the awaited prompt resolves
Answer ==
    /\ pc = "prompt"
    /\ \E answer \in PromptAnswers(invocation.command) :
          /\ answered' = answer
          /\ Apply(catch(invocation.command,
                         afterPrompt(invocation, cmdGlobalOpts, printed, answer)),
                   loads)
    /\ UNCHANGED <<invocation, cmdGlobalOpts, cmdConfig, loads, response, remote,
                   configVars, validateVars, natsVars, subjectVars>>

\* the action resumes with the envelope resp
Resume(resp) ==
    /\ response' = resp
    /\ Apply(catch(invocation.command,
                   afterResponse(invocation, cmdGlobalOpts, printed,
                                 requests[Len(requests)], resp)),
             loads)
    /\ UNCHANGED <<invocation, cmdGlobalOpts, cmdConfig, loads, answered, remote,
                   configVars, validateVars, natsVars, subjectVars>>

\* the awaited client call resolves to an envelope
Receive ==
    /\ pc = "request"
    /\ \E resp \in Replies(requests[Len(requests)].op) : Resume(resp)

\* the configuration files a command finds
CommandFiles ==
    { [state |-> "absent"],
      [state |-> "malformed"],
      [state |-> "json", content |-> [projectId |-> "file-project", defaultPriority |-> 3]] }

(* SpecCommand: one command line, run to its end *)
InitCommand ==
    /\ configFile \in CommandFiles
    /\ env = EmptyObject
    /\ lastOp = [op |-> "none"]
    /\ result = [ok |-> TRUE]
    /\ IdleValidate
    /\ IdleNats
    /\ IdleSubjects
    /\ IdleCommand

NextCommand ==
    \/ Invoke
    \/ Answer
    \/ Receive

SpecCommand == InitCommand /\ [][NextCommand]_vars

----------------------------------------------------------------------------
(* The projects command over NATS (commands/projects.ts) next to the one    *)
(* over the REST client                                                     *)

\* the two projects commands of the repository, by their source
ProjectsSources == {"commands/projects.ts", "part_002"}

\* the command lines that run a projects command
ProjectsInvocations(source) ==
    {[command |-> "projects", programOpts |-> g, arg |-> EntityArgument,
      options |-> EmptyObject, source |-> source] : g \in OptionsFrom(
          [json |-> {Undefined, Flag}, quiet |-> {Undefined, Flag}])}

\* what the coordinator is in: running with a set of active projects, or
\* failing (down, answering with an error, answering with bytes that are
\* not JSON)
RemoteStates ==
    {[kind |-> "projects", active |-> S] : S \in SUBSET {"p1", "p2"}}
    \cup {[kind |-> "failure", failure |-> f] : f \in {"down", "error", "garbled"}}

\* the ids of a set in some order
RECURSIVE SetToSeq(_)
SetToSeq(S) ==
    IF S = {} THEN <<>>
    ELSE LET x == CHOOSE y \in S : TRUE IN <<x>> \o SetToSeq(S \ {x})

\* the GlobalStats object the coordinator answers coord.global.stats with
globalStats(active) ==
    [totalProjects |-> Cardinality(active),
     totals        |-> [agents |-> Cardinality(active)],
     byProject     |-> [p \in active |-> [agents |-> 1]]]

\* what nc.request resolves or rejects with, for a state of the coordinator
natsReplyOf(r) ==
    IF r.kind = "projects"
    THEN [kind |-> "message", decodable |-> TRUE, data |-> globalStats(r.active)]
    ELSE CASE r.failure = "down"    -> [kind |-> "timeout"]
           [] r.failure = "error"   -> [kind |-> "message", decodable |-> TRUE,
                                        data |-> [error |-> "remote says no"]]
           [] r.failure = "garbled" -> [kind |-> "message", decodable |-> FALSE]

\* the envelope client.listProjects resolves to, for a state of the coordinator
httpReplyOf(r) ==
    IF r.kind = "projects"
    THEN [ok |-> TRUE, status |-> 200, data |-> [projects |-> SetToSeq(r.active)]]
    ELSE CASE r.failure = "down"    -> [ok |-> FALSE, status |-> 0, error |-> "fetch failed"]
           [] r.failure = "error"   -> [ok |-> FALSE, status |-> 500, error |-> "remote says no"]
           [] r.failure = "garbled" -> [ok |-> FALSE, status |-> 200, error |-> "invalid json"]

\* the parts of an error message as one string
RECURSIVE messageText(_)
messageText(parts) ==
    IF parts = <<>> THEN "" ELSE Head(parts) \o messageText(Tail(parts))

\* the subject the NATS projects command requests on
GlobalStatsSubject == "coord.global.stats"

\* the NATS projects action from its start to await getNATSConnection(config)
NatsProjectsStart ==
    /\ pc = "idle"
    /\ \E inv \in ProjectsInvocations("commands/projects.ts") :
          LET g      == getGlobalOptions(inv.command, inv.programOpts)
              loaded == loadConfig(configFile, env, commandLoadOptions(g))
          IN  /\ invocation' = inv
              /\ cmdGlobalOpts' = g
              /\ cmdConfig' = loaded
              /\ loads' = loads + 1
              /\ IF loaded.ok
                 THEN /\ printed' = startSpinner(<<>>, g, startText(inv.command))
                      /\ pc' = "getNATSConnection"
                      /\ UNCHANGED <<requests, exitCode, ending>>
                 ELSE Apply(catch(inv.command, Throw(<<>>, loaded.error)), loads + 1)
    /\ UNCHANGED <<response, answered, remote, configVars, validateVars, natsVars, subjectVars>>

\* getNATSConnection(config) is called with the configuration just loaded
NatsProjectsGet ==
    /\ pc = "getNATSConnection"
    /\ lastReturn.op = "none"
    /\ GetStartWith("c1", cmdConfig.config)

\* getNATSConnection has returned or thrown: nc.request('coord.global.stats',
\* '{}', {timeout: 5000}) is sent, or the catch block runs
NatsProjectsConnected ==
    /\ pc = "getNATSConnection"
    /\ lastReturn.op = "get"
    /\ frames["c1"].pc = "idle"
    /\ IF lastReturn.outcome.kind = "connection"
       THEN /\ requests' = Append(requests,
                              [op |-> "request", subject |-> GlobalStatsSubject,
                               args |-> [payload |-> "{}", timeout |-> 5000],
                               loads |-> loads])
            /\ pc' = "request"
            /\ UNCHANGED <<printed, exitCode, ending>>
       ELSE Apply(catch(invocation.command,
                        Throw(printed, messageText(lastReturn.outcome.message))),
                  loads)
    /\ UNCHANGED <<invocation, cmdGlobalOpts, cmdConfig, loads, response, answered, remote,
                   configVars, validateVars, natsVars, subjectVars>>

\* the awaited request settles: a reply that JSON.parse accepts is kept and
\* closeNATSConnection is called next; a timeout or a reply that is not
\* JSON throws
NatsProjectsReply ==
    /\ pc = "request"
    /\ invocation.source = "commands/projects.ts"
    /\ LET reply == natsReplyOf(remote)
       IN  /\ response' = reply
           /\ IF reply.kind = "message" /\ reply.decodable
              THEN /\ pc' = "closeNATSConnection"
                   /\ UNCHANGED <<printed, requests, exitCode, ending>>
              ELSE Apply(catch(invocation.command,
                               Throw(printed, IF reply.kind = "timeout"
                                              THEN "TIMEOUT" ELSE "SyntaxError")),
                         loads)
    /\ UNCHANGED <<invocation, cmdGlobalOpts, cmdConfig, loads, answered, remote,
                   configVars, validateVars, natsVars, subjectVars>>

\* await closeNATSConnection() is called
NatsProjectsClose ==
    /\ pc = "closeNATSConnection"
    /\ lastReturn.op = "get"
    /\ CloseStart("c1")

\* the output of the NATS projects action once the connection is closed
renderGlobalStats(g, p, stats) ==
    LET p1 == succeedSpinner(p, g,
                  "Found " \o (IF "totalProjects" \in DOMAIN stats
                               THEN ToString(stats.totalProjects) ELSE "undefined")
                           \o " project(s)")
    IN  IF Truthy(g.json)
        THEN Return(Append(p1, Show("output", stats)))
        ELSE IF Has(stats, "totalProjects", 0)
        THEN Return(Append(p1, Say("console.log", "No active projects")))
        ELSE IF "byProject" \notin DOMAIN stats
        THEN Throw(p1, "TypeError")
        ELSE Return(p1 \o <<Show("createTable", SetToSeq(DOMAIN stats.byProject)),
                            Show("console.log", stats.totals)>>)

\* closeNATSConnection has returned or thrown: the statistics are printed
NatsProjectsClosed ==
    /\ pc = "closeNATSConnection"
    /\ lastReturn.op = "close"
    /\ frames["c1"].pc = "idle"
    /\ Apply(catch(invocation.command,
                   IF lastReturn.outcome.kind = "error"
                   THEN Throw(printed, messageText(lastReturn.outcome.message))
                   ELSE renderGlobalStats(cmdGlobalOpts, printed, response.data)),
             loads)
    /\ UNCHANGED <<invocation, cmdGlobalOpts, cmdConfig, loads, response, answered, remote,
                   configVars, validateVars, natsVars, subjectVars>>

\* the REST projects action from its start to await client.listProjects()
HttpProjectsStart ==
    /\ pc = "idle"
    /\ \E inv \in ProjectsInvocations("part_002") : Start(inv)
    /\ UNCHANGED <<response, answered, remote, configVars, validateVars, natsVars, subjectVars>>

\* client.listProjects() resolves to the coordinator's answer
HttpProjectsReply ==
    /\ pc = "request"
    /\ invocation.source = "part_002"
    /\ Resume(httpReplyOf(remote))

\* the configuration files a projects command finds
ProjectsFiles ==
    { [state |-> "absent"],
      [state |-> "malformed"],
      [state |-> "json", content |-> [projectId |-> "file-project",
                                      natsCredentials |-> CredentialsPath]] }

(* SpecProjects: one run of either projects command against a coordinator *)
InitProjects ==
    /\ remote \in RemoteStates
    /\ configFile \in ProjectsFiles
    /\ clientSource \in ClientSources
    /\ env = EmptyObject
    /\ lastOp = [op |-> "none"]
    /\ result = [ok |-> TRUE]
    /\ cachedConnection = 0
    /\ connections = <<>>
    /\ frames = [c \in Callers |-> Idle]
    /\ lastReturn = [op |-> "none"]
    /\ invocation = [command |-> "none"]
    /\ pc = "idle"
    /\ cmdGlobalOpts = EmptyObject
    /\ cmdConfig = [ok |-> TRUE, config |-> EmptyObject]
    /\ loads = 0
    /\ requests = <<>>
    /\ response = [kind |-> "none"]
    /\ answered = [kind |-> "none"]
    /\ printed = <<>>
    /\ exitCode = -1
    /\ ending = "none"
    /\ IdleValidate
    /\ IdleSubjects

NextProjects ==
    \/ NatsProjectsStart
    \/ NatsProjectsGet
    \/ GetReadFile("c1")
    \/ GetConnect("c1")
    \/ NatsProjectsConnected
    \/ NatsProjectsReply
    \/ NatsProjectsClose
    \/ CloseDrainSettles("c1")
    \/ CloseClose("c1")
    \/ CloseClear("c1")
    \/ NatsProjectsClosed
    \/ HttpProjectsStart
    \/ HttpProjectsReply

SpecProjects == InitProjects /\ [][NextProjects]_vars

----------------------------------------------------------------------------
(* Properties of loadConfig *)

\* the last call resolved a configuration through loadConfig's options
IsLoad == lastOp.op \in {"load", "command"}

\* the projectOverride the caller of the last load supplied
GivenOverride ==
    CASE lastOp.op = "command" -> lastOp.globalOpts.project
      [] lastOp.op = "load" /\ lastOp.source.kind = "options"
            -> IF "projectOverride" \in DOMAIN lastOp.source.options
               THEN lastOp.source.options.projectOverride
               ELSE Undefined
      [] OTHER -> Undefined

\* the value the highest-precedence source defining field f gives it, as
\* <<source, value>>, or <<"none">> when no source defines f
HighestSource(f) ==
    IF f = "projectId" /\ GivenOverride \notin {Undefined, ""}
    THEN <<"override", GivenOverride>>
    ELSE IF \E v \in DOMAIN env : EnvField(v) = f
    THEN <<"env", env[CHOOSE v \in DOMAIN env : EnvField(v) = f]>>
    ELSE IF configFile.state = "json" /\ f \in DOMAIN configFile.content
    THEN <<"file", configFile.content[f]>>
    ELSE CASE f = "natsUrl"         -> <<"default", "nats://localhost:4222">>
           [] f = "defaultPriority" -> <<"default", 5>>
           [] f = "outputFormat"    -> <<"default", "table">>
           [] f = "projectId"       -> <<"default", "default">>
           [] OTHER                 -> <<"none">>

\* C1: loadConfig returns, for every field, the value of the highest-precedence
\* source that defines it (defaults < file < environment < projectOverride); a
\* field no source defines keeps its built-in default or stays undefined.
C1_Precedence ==
    (IsLoad /\ result.ok) =>
        /\ DOMAIN result.config \subseteq Fields
        /\ \A f \in Fields :
              LET h == HighestSource(f)
              IN  IF h[1] = "none"
                  THEN f \notin DOMAIN result.config
                  ELSE f \in DOMAIN result.config /\ result.config[f] = h[2]

\* C1 witness: all four sources define a value and the load has returned
C1_Witness ==
    /\ lastOp.op = "load"
    /\ GivenOverride = "override-project"
    /\ DOMAIN env = EnvVars
    /\ configFile.state = "json"
    /\ {"natsUrl", "projectId", "defaultPriority"} \subseteq DOMAIN configFile.content
    /\ result.ok
    /\ result.config.projectId = "override-project"
    /\ result.config.natsUrl = "nats://env:4222"
    /\ result.config.defaultPriority = 3
    /\ result.config.outputFormat = "table"

\* what loadConfig(path) returns in the current state, with no override
WithoutOverride == loadConfig(configFile, env, [kind |-> "path", path |-> ConfigPath])

\* C2: projectOverride changes only projectId and only when it is a non-empty
\* string: with an absent, undefined or empty override the result equals the
\* result without override; with a non-empty one every other field is the same.
C2_OverrideFrame ==
    (IsLoad /\ result.ok) =>
        IF GivenOverride \in {Undefined, ""}
        THEN result = WithoutOverride
        ELSE /\ result.config.projectId = GivenOverride
             /\ DOMAIN result.config \ {"projectId"} = DOMAIN WithoutOverride.config \ {"projectId"}
             /\ \A f \in DOMAIN result.config \ {"projectId"} :
                   result.config[f] = WithoutOverride.config[f]

\* C2 witness: a command ran with an empty --project over a file that names a
\* project, and another with a non-empty one
C2_Witness ==
    /\ lastOp.op = "command"
    /\ lastOp.globalOpts.project = ""
    /\ configFile.state = "json"
    /\ "projectId" \in DOMAIN configFile.content
    /\ "PROJECT_ID" \notin DOMAIN env
    /\ result.ok
    /\ result.config.projectId = configFile.content.projectId

\* C3: loadConfig on a missing file does not raise and, with no relevant
\* environment variable set, yields projectId 'default' and natsUrl
\* 'nats://localhost:4222'; on a file that is not valid JSON it raises.
C3_MissingAndMalformed ==
    IsLoad =>
        /\ configFile.state = "absent" =>
              /\ result.ok
              /\ (env = EmptyObject /\ GivenOverride \in {Undefined, ""}) =>
                    /\ result.config.projectId = "default"
                    /\ result.config.natsUrl = "nats://localhost:4222"
        /\ configFile.state = "malformed" =>
              /\ ~result.ok
              /\ result.error = "ConfigParseError"
        /\ configFile.state = "json" => result.ok

\* C3 witness: a load of a missing file returned the defaults
C3_Witness ==
    /\ lastOp.op = "load"
    /\ lastOp.source.kind = "path"
    /\ configFile.state = "absent"
    /\ env = EmptyObject
    /\ result.ok
    /\ result.config.projectId = "default"

\* a load of a malformed file has raised (the other case of C3)
C3_MalformedReached ==
    /\ lastOp.op = "load"
    /\ configFile.state = "malformed"
    /\ ~result.ok

----------------------------------------------------------------------------
(* Properties of saveConfig / setConfigValue and the round trip *)

\* this step is a saveConfig or setConfigValue call
SaveStep == lastOp'.op \in {"save", "set"}

\* C4: saveConfig(partial) and setConfigValue(key, value) leave every stored
\* field they do not name with its previous value, at every step of any
\* sequence of calls; on an absent file they create it holding exactly the
\* given fields.
C4_SaveFrame ==
    [][SaveStep =>
        /\ lastOp'.op = "set" => DOMAIN lastOp'.partial = {lastOp'.key}
        /\ \A f \in DOMAIN fileConfig(configFile) \ DOMAIN lastOp'.partial :
              /\ configFile'.state = "json"
              /\ f \in DOMAIN configFile'.content
              /\ configFile'.content[f] = configFile.content[f]
        /\ configFile.state = "absent" =>
              configFile' = [state |-> "json", content |-> lastOp'.partial]
        /\ configFile.state # "malformed" =>
              /\ result'.ok
              /\ \A f \in DOMAIN lastOp'.partial :
                    /\ f \in DOMAIN configFile'.content
                    /\ configFile'.content[f] = lastOp'.partial[f]
    ]_vars

\* C4 witness: a save changed the project id of a file and fields it did not
\* name are still stored
C4_Witness ==
    /\ lastOp.op = "save"
    /\ result.ok
    /\ "projectId" \in DOMAIN lastOp.partial
    /\ lastOp.partial.projectId = "saved-project"
    /\ configFile.state = "json"
    /\ Cardinality(DOMAIN configFile.content \ DOMAIN lastOp.partial) >= 2
    /\ "natsUrl" \in DOMAIN configFile.content \ DOMAIN lastOp.partial

\* this step reads the configuration right after a successful save or set
ReadAfterSave ==
    /\ lastOp.op \in {"save", "set"}
    /\ result.ok
    /\ lastOp'.op \in {"load", "get", "list"}

\* the fields whose value the read of this step returns
FieldsRead == IF lastOp'.op = "get" THEN {lastOp'.key} ELSE Fields

\* the value the read of this step returns for field f
ValueRead(f) ==
    IF lastOp'.op = "get"
    THEN result'.value
    ELSE IF f \in DOMAIN result'.config THEN result'.config[f] ELSE Undefined

\* the field f is given by a set environment variable
EnvDefines(f) == \E v \in DOMAIN env : EnvField(v) = f

\* C5 as stated: after saveConfig(partial), loadConfig / getConfigValue /
\* listConfig return the saved value for every field in partial and the
\* previously saved value for every stored field not in partial.
C5_RoundTripAsStated ==
    [][ReadAfterSave =>
        /\ result'.ok
        /\ \A f \in FieldsRead \cap DOMAIN configFile.content :
              ValueRead(f) = configFile.content[f]
        /\ \A f \in FieldsRead \cap DOMAIN lastOp.partial :
              ValueRead(f) = lastOp.partial[f]
    ]_vars

\* C5 amended: the round trip holds for every field that no set environment
\* variable (NATS_URL, PROJECT_ID, LOOM_API_URL, LOOM_API_TOKEN) maps to; for a
\* field whose variable is set the read returns the variable's value.
C5_RoundTrip ==
    [][ReadAfterSave =>
        /\ result'.ok
        /\ \A f \in FieldsRead \cap DOMAIN configFile.content :
              IF EnvDefines(f)
              THEN ValueRead(f) = env[CHOOSE v \in DOMAIN env : EnvField(v) = f]
              ELSE ValueRead(f) = configFile.content[f]
        /\ \A f \in (FieldsRead \cap DOMAIN lastOp.partial) :
              ~EnvDefines(f) => ValueRead(f) = lastOp.partial[f]
    ]_vars

\* C5 witness: a load returned a project id and a priority that only a save
\* can have stored, over a built-in default and with the environment set for
\* another field
C5_Witness ==
    /\ lastOp.op = "load"
    /\ result.ok
    /\ configFile.state = "json"
    /\ "projectId" \in DOMAIN configFile.content
    /\ configFile.content.projectId = "saved-project"
    /\ "PROJECT_ID" \notin DOMAIN env
    /\ result.config.projectId = "saved-project"
    /\ "defaultPriority" \in DOMAIN configFile.content
    /\ result.config.defaultPriority = 3

----------------------------------------------------------------------------
(* Properties of validateConfig *)

\* validateConfig has returned for the candidate
Validated == errors # NotValidated

\* the i-th character of a string
CharAt(s, i) == SubSeq(s, i, i)

\* the rules, stated on the candidate alone
BreaksScheme ==
    /\ "natsUrl" \in DOMAIN candidate
    /\ \/ Len(candidate.natsUrl) < 7
       \/ \E i \in 1..7 : CharAt(candidate.natsUrl, i) # CharAt("nats://", i)

BreaksPriority ==
    /\ "defaultPriority" \in DOMAIN candidate
    /\ candidate.defaultPriority \notin 1..10

BreaksBoundary ==
    /\ "defaultBoundary" \in DOMAIN candidate
    /\ \A i \in 1..Len(candidate.defaultBoundary) :
          CharAt(candidate.defaultBoundary, i) \in WhiteSpace

BreaksOutputFormat ==
    /\ "outputFormat" \in DOMAIN candidate
    /\ candidate.outputFormat # "table"
    /\ candidate.outputFormat # "json"

\* the messages of the violated rules, in rule order
ExpectedErrors ==
    (IF BreaksScheme THEN <<MsgNatsUrl>> ELSE <<>>)
    \o (IF BreaksPriority THEN <<MsgPriority>> ELSE <<>>)
    \o (IF BreaksBoundary THEN <<MsgBoundary>> ELSE <<>>)
    \o (IF BreaksOutputFormat THEN <<MsgOutputFormat>> ELSE <<>>)

\* the messages a list holds
Messages(list) == {list[i] : i \in 1..Len(list)}

\* C6: validateConfig checks all four rules independently: the list holds a
\* rule's message iff that rule is violated, so k violated rules give exactly
\* k messages, in the fixed rule order.
C6_AllRulesChecked ==
    Validated =>
        /\ (MsgNatsUrl \in Messages(errors)) <=> BreaksScheme
        /\ (MsgPriority \in Messages(errors)) <=> BreaksPriority
        /\ (MsgBoundary \in Messages(errors)) <=> BreaksBoundary
        /\ (MsgOutputFormat \in Messages(errors)) <=> BreaksOutputFormat
        /\ Len(errors) = Cardinality({r \in {<<1, BreaksScheme>>, <<2, BreaksPriority>>,
                                              <<3, BreaksBoundary>>, <<4, BreaksOutputFormat>>} : r[2]})
        /\ errors = ExpectedErrors

\* C6 witness: a candidate that violates all four rules got four messages
C6_Witness ==
    /\ Validated
    /\ BreaksScheme /\ BreaksPriority /\ BreaksBoundary /\ BreaksOutputFormat
    /\ Len(errors) = 4

\* C7: a field absent from the candidate never produces a violation:
\* validateConfig({defaultPriority: 15}) is exactly the priority-range
\* violation and validateConfig({}) is the empty list.
C7_AbsentFieldsPass ==
    Validated =>
        /\ "natsUrl" \notin DOMAIN candidate => MsgNatsUrl \notin Messages(errors)
        /\ "defaultPriority" \notin DOMAIN candidate => MsgPriority \notin Messages(errors)
        /\ "defaultBoundary" \notin DOMAIN candidate => MsgBoundary \notin Messages(errors)
        /\ "outputFormat" \notin DOMAIN candidate => MsgOutputFormat \notin Messages(errors)
        /\ candidate = [defaultPriority |-> 15] => errors = <<MsgPriority>>
        /\ candidate = EmptyObject => errors = <<>>

\* C7 witness: validateConfig({defaultPriority: 15}) has returned
C7_Witness ==
    /\ Validated
    /\ candidate = [defaultPriority |-> 15]
    /\ errors = <<MsgPriority>>

----------------------------------------------------------------------------
(* Properties of the cached NATS connection, calls running one at a time *)

\* the last call to return was a getNATSConnection that found a connection
\* cached and not closed
FoundLiveCache ==
    /\ lastReturn.op = "get"
    /\ lastReturn.cacheBefore # 0
    /\ lastReturn.statusBefore # "closed"

\* C8: a getNATSConnection call made while the cached connection exists and is
\* not closed returns that same instance and performs no connect; connect is
\* performed only when the cache is empty or holds a closed connection.
C8_CacheReuse ==
    /\ FoundLiveCache =>
          /\ lastReturn.outcome = [kind |-> "connection", id |-> lastReturn.cacheBefore]
          /\ ~lastReturn.attempted
          /\ lastReturn.connected = 0
          /\ lastReturn.cacheAfter = lastReturn.cacheBefore
    /\ (lastReturn.op = "get" /\ lastReturn.attempted) =>
          lastReturn.statusBefore \in {"null", "closed"}
    /\ \A c \in Callers :
          frames[c].pc \in {"readFile", "connect"} =>
              frames[c].statusBefore \in {"null", "closed"}

\* C8 witness: a second getNATSConnection returned the open cached connection
\* and the process still has opened one connection only
C8_Witness ==
    /\ FoundLiveCache
    /\ lastReturn.statusBefore = "open"
    /\ lastReturn.outcome.kind = "connection"
    /\ lastReturn.outcome.id = 1
    /\ Len(connections) = 1

\* the last call to return was a closeNATSConnection that returned normally
CloseReturned ==
    /\ lastReturn.op = "close"
    /\ lastReturn.outcome.kind = "void"

\* C9 as stated: whenever closeNATSConnection returns, the cache is empty.
C9_CacheEmptyAfterCloseAsStated ==
    CloseReturned => lastReturn.cacheAfter = 0

\* every close() the client called on a connection came after a drain() on it
DrainedBeforeClose(id) ==
    \A i \in 1..Len(connections[id].log) :
        connections[id].log[i] = "close" =>
            \E j \in 1..(i - 1) : connections[id].log[j] = "drain"

\* C9 amended: closeNATSConnection drains the cached connection before closing
\* it and returns with the cache empty when it finds a cached connection that
\* is not closed; when the cache is empty or holds an already closed
\* connection it changes nothing, so the closed connection stays cached; in
\* both cases the next getNATSConnection establishes a new connection.
C9_CloseClearsLiveCache ==
    /\ CloseReturned =>
          /\ IF lastReturn.cacheBefore # 0 /\ lastReturn.statusBefore # "closed"
             THEN /\ lastReturn.cacheAfter = 0
                  /\ connections[lastReturn.cacheBefore].status = "closed"
                  /\ \E i \in 1..Len(connections[lastReturn.cacheBefore].log) :
                        connections[lastReturn.cacheBefore].log[i] = "close"
             ELSE lastReturn.cacheAfter = lastReturn.cacheBefore
          /\ \/ lastReturn.cacheAfter = 0
             \/ connections[lastReturn.cacheAfter].status = "closed"
    /\ \A id \in 1..Len(connections) : DrainedBeforeClose(id)
    /\ (/\ lastReturn.op = "get"
        /\ lastReturn.statusBefore \in {"null", "closed"}
        /\ lastReturn.outcome.kind = "connection") =>
          /\ lastReturn.connected # 0
          /\ lastReturn.outcome.id = lastReturn.connected
          /\ lastReturn.outcome.id # lastReturn.cacheBefore
          /\ lastReturn.cacheAfter = lastReturn.connected

\* C9 witness: closeNATSConnection drained and closed an open cached connection
\* and returned with the cache empty
C9_Witness ==
    /\ CloseReturned
    /\ lastReturn.statusBefore = "open"
    /\ lastReturn.cacheBefore = 1
    /\ connections[1].log = <<"drain", "close">>
    /\ cachedConnection = 0

\* a closeNATSConnection returned and left a closed connection in the cache
C9_ClosedStaysCached ==
    /\ CloseReturned
    /\ lastReturn.statusBefore = "closed"
    /\ lastReturn.cacheAfter # 0

\* the last call to return was a getNATSConnection that went past the cache
\* test with config.natsCredentials set
EstablishedWithCredentials ==
    /\ lastReturn.op = "get"
    /\ lastReturn.statusBefore \in {"null", "closed"}
    /\ "natsCredentials" \in DOMAIN lastReturn.config
    /\ lastReturn.config.natsCredentials # ""

\* C10: with config.natsCredentials set, getNATSConnection reads that file and
\* authenticates the connection with its contents; if the read fails it raises
\* an error whose message contains the path, attempts no connect and leaves
\* the cache as it was.
C10_CredentialsUsed ==
    EstablishedWithCredentials =>
        /\ lastReturn.read # "none"
        /\ lastReturn.connected # 0 =>
              connections[lastReturn.connected].authenticator = CredentialsContent
        /\ lastReturn.read = "failed" =>
              /\ lastReturn.outcome.kind = "error"
              /\ \E i \in 1..Len(lastReturn.outcome.message) :
                    lastReturn.outcome.message[i] = lastReturn.config.natsCredentials
              /\ ~lastReturn.attempted
              /\ lastReturn.connected = 0
              /\ lastReturn.cacheAfter = lastReturn.cacheBefore

\* C10 restricted to the copy of the client that reads credentials
C10_InCredentialsAwareCopy ==
    clientSource = "part_001" => C10_CredentialsUsed

\* a read of the credentials file failed and getNATSConnection raised
C10_ReadFailureReached ==
    /\ EstablishedWithCredentials
    /\ lastReturn.read = "failed"
    /\ lastReturn.outcome.kind = "error"

----------------------------------------------------------------------------
(* Properties of LoomSubjects *)

\* the entity category a method belongs to
Category(method) ==
    CASE method \in {"workSubmit", "workStatus", "workList", "workGet", "workCancel"} -> "work"
      [] method \in {"agentsList", "agentDetails", "agentShutdown"} -> "agents"
      [] method \in {"spinUpTrigger", "spinUpStatus", "spinUpList"} -> "spinup"
      [] method = "stats" -> "stats"
      [] OTHER -> "targets"

\* both calls have returned
SubjectsBuilt == subjects # <<>>

\* C12: LoomSubjects is deterministic and collision-free: the same project id,
\* method and id give the same subject, and two calls that differ in project
\* id or in category never give the same subject, for all project ids and
\* entity ids.
C12_DeterministicCollisionFree ==
    SubjectsBuilt =>
        LET a == subjectCalls[1]
            b == subjectCalls[2]
        IN  /\ a = b => subjects[1] = subjects[2]
            /\ (a.projectId # b.projectId \/ Category(a.method) # Category(b.method))
                  => subjects[1] # subjects[2]

\* the same property for project ids and entity ids without a dot
C12_CollisionFreeWithoutDots ==
    SubjectsBuilt =>
        LET a == subjectCalls[1]
            b == subjectCalls[2]
        IN  (/\ a.projectId # "p1.agents"
             /\ b.projectId # "p1.agents"
             /\ (a.projectId # b.projectId \/ Category(a.method) # Category(b.method)))
                  => subjects[1] # subjects[2]

\* the category names and the operation names of the hierarchy
Categories == {"work", "agents", "targets", "spinup", "stats"}

Operations ==
    {"submit", "status", "list", "get", "cancel", "shutdown", "register",
     "update", "remove", "test", "enable", "disable", "trigger"}

\* root.<project>.<category>.<operation>, followed by .<id> exactly when the
\* call has an entity id
HasHierarchyForm(call, subject) ==
    \E category \in Categories : \E operation \in Operations :
        subject = "loom." \o call.projectId \o "." \o category \o "." \o operation
                    \o (IF call.id = Undefined THEN "" ELSE "." \o call.id)

\* C13: every subject a LoomSubjects method produces has the form
\* root.<project>.<category>.<operation> optionally followed by .<id>: the
\* category is one of work, agents, targets, spinup, stats, the operation is
\* a fixed name, and an entity id appears only as the fifth segment.
C13_HierarchyForm ==
    SubjectsBuilt =>
        \A i \in 1..2 : HasHierarchyForm(subjectCalls[i], subjects[i])

\* the methods whose subject has the form; agentDetails and stats do not
C13_FormExceptDetailsAndStats ==
    SubjectsBuilt =>
        \A i \in 1..2 :
            subjectCalls[i].method \notin {"agentDetails", "stats"}
                => HasHierarchyForm(subjectCalls[i], subjects[i])

----------------------------------------------------------------------------
(* Properties of the projects commands *)

\* the run is one of the projects command over NATS
NatsProjectsRun ==
    /\ invocation.command = "projects"
    /\ "source" \in DOMAIN invocation
    /\ invocation.source = "commands/projects.ts"

\* every connection the process opened has been closed by closeNATSConnection
AllConnectionsClosed ==
    \A id \in 1..Len(connections) :
        /\ connections[id].status = "closed"
        /\ \E k \in 1..Len(connections[id].log) : connections[id].log[k] = "close"

\* C11: in the NATS projects command, on every path on which a connection
\* was acquired (reply, timeout, undecodable reply) closeNATSConnection has
\* run before the process exits or the command returns: no path ends with
\* the cached connection still open.
C11_ClosedBeforeEnd ==
    (pc = "done" /\ NatsProjectsRun /\ connections # <<>>) => AllConnectionsClosed

\* the connection is closed on the path on which the reply was decoded
C11_ClosedAfterDecodedReply ==
    (pc = "done" /\ NatsProjectsRun /\ connections # <<>>
        /\ response = natsReplyOf(remote) /\ response.kind = "message" /\ response.decodable)
        => AllConnectionsClosed

\* the run ended in the catch block with the connection it acquired open
C11_ExitWithOpenConnection ==
    /\ pc = "done"
    /\ NatsProjectsRun
    /\ ending = "exit"
    /\ exitCode = 1
    /\ cachedConnection # 0
    /\ connections[cachedConnection].status = "open"

\* C14: every subject on which the client sends a messaging request is
\* rooted at the product prefix followed by the resolved project id
\* (loom.<projectId>. ...), the aggregate-stats request of the projects
\* command included.
C14_RequestsRootedAtProject ==
    \A i \in 1..Len(requests) :
        "subject" \in DOMAIN requests[i]
            => startsWith(requests[i].subject,
                          "loom." \o cmdConfig.config.projectId \o ".")

\* the elements of a sequence
Range(seq) == {seq[i] : i \in 1..Len(seq)}

\* the project ids a run listed, as a table or as structured output
ListedProjects ==
    UNION {IF printed[i].via = "createTable" THEN Range(printed[i].data)
           ELSE IF printed[i].via = "output"
           THEN (IF "projects" \in DOMAIN printed[i].data
                 THEN Range(printed[i].data.projects)
                 ELSE IF "byProject" \in DOMAIN printed[i].data
                 THEN DOMAIN printed[i].data.byProject
                 ELSE {})
           ELSE {} : i \in 1..Len(printed)}

\* the run printed 'No active projects'
SaidNoActiveProjects ==
    \E i \in 1..Len(printed) :
        /\ printed[i].via = "console.log"
        /\ "text" \in DOMAIN printed[i]
        /\ printed[i].text = "No active projects"

\* the run ended after the coordinator's answer to its one request arrived
ProjectsAnswered ==
    /\ pc = "done"
    /\ invocation.command = "projects"
    /\ Len(requests) = 1
    /\ ("kind" \in DOMAIN response => response.kind # "none")

\* what a projects command shows for a state of the coordinator, whatever
\* the binding
SameOutcomeForRemote ==
    /\ exitCode = (IF remote.kind = "projects" THEN 0 ELSE 1)
    /\ ListedProjects = (IF remote.kind = "projects" THEN remote.active ELSE {})
    /\ SaidNoActiveProjects <=>
          (remote.kind = "projects" /\ remote.active = {} /\ ~Truthy(cmdGlobalOpts.json))

\* C19: the NATS-based and the REST-based projects command are
\* substitutable: for the same remote state (the same set of active
\* projects, or the same failure) they end with the same exit code, list the
\* same project ids and print 'No active projects' in the same cases.
C19_BindingsSubstitutable ==
    ProjectsAnswered => SameOutcomeForRemote

\* the two commands agree unless the coordinator answers with an error
C19_SubstitutableUnlessErrorReply ==
    (ProjectsAnswered /\ ~(remote.kind = "failure" /\ remote.failure = "error"))
        => SameOutcomeForRemote

\* the REST command alone shows the outcome for every state of the coordinator
C19_RestShowsOutcome ==
    (ProjectsAnswered /\ invocation.source = "part_002") => SameOutcomeForRemote

----------------------------------------------------------------------------
(* Properties of the commands *)

\* the action has received a failure envelope
FailureReceived == "ok" \in DOMAIN response /\ ~response.ok

\* the texts the action gave error(), in order
ErrorTexts ==
    LET RECURSIVE Pick(_)
        Pick(p) ==
            IF p = <<>> THEN <<>>
            ELSE (IF Head(p).via = "error" THEN <<Head(p).text>> ELSE <<>>) \o Pick(Tail(p))
    IN  Pick(printed)

\* the commands that fetch or address one named entity
SingleEntityCommands == {"targets show", "work show", "shutdown"}

\* C15: in every command that fetches a single named entity (targets show,
\* work show, shutdown of an agent) a failure envelope with status 404 gives
\* an error message specific to not-found, different from the message a
\* failure envelope with status 500 and the same error text gives.
C15_NotFoundIsDistinct ==
    (pc = "done" /\ invocation.command \in SingleEntityCommands
        /\ FailureReceived /\ response.status = 404)
        => ErrorTexts # <<"Error: " \o failureMessage(invocation.command,
                                           [response EXCEPT !.status = 500],
                                           invocation.arg)>>

\* targets show alone tells not-found apart
C15_TargetsShowDistinct ==
    (pc = "done" /\ invocation.command = "targets show"
        /\ FailureReceived /\ response.status = 404)
        => ErrorTexts = <<"Error: Target not found: " \o invocation.arg>>

\* a payload that carries a failure: an unhealthy target, a refused shutdown,
\* a spin-up that is not a success
CarriesFailure(data) ==
    \/ Has(data, "healthy", FALSE)
    \/ Has(data, "success", FALSE)
    \/ ("status" \in DOMAIN data /\ ~isSuccess(data))

\* the action reported an error or a failure to the user
ReportedFailure ==
    \E i \in 1..Len(printed) :
        \/ printed[i].via \in {"error", "spinner.fail"}
        \/ /\ printed[i].via \in {"output", "formatKeyValue"}
           /\ CarriesFailure(printed[i].data)

\* C16: every command exits with code 1 whenever it reported an error or a
\* failure and with code 0 only when it reported none, in every output mode,
\* failures carried inside an ok response included (targets test with
\* healthy=false, shutdown with success=false, spin-up that is not a success).
C16_ExitCodeMatchesReport ==
    pc = "done" => (exitCode = 1 <=> ReportedFailure)

\* the three failures carried inside an ok response
FailureInsideOk ==
    /\ "ok" \in DOMAIN response
    /\ response.ok
    /\ invocation.command \in {"targets test", "shutdown", "spin-up"}
    /\ CarriesFailure(response.data)

\* apart from those three, the exit code matches what was reported
C16_ExitCodeMatchesUnlessInsideOk ==
    (pc = "done" /\ ~FailureInsideOk) => (exitCode = 1 <=> ReportedFailure)

\* targets test ended with code 0 although the target is unhealthy
C16_UnhealthyExitsZero ==
    /\ pc = "done"
    /\ invocation.command = "targets test"
    /\ FailureInsideOk
    /\ exitCode = 0

\* the configuration is resolved once when the action starts, and every
\* request is sent after that
LoadedOnceBeforeRequests ==
    /\ loads = (IF pc = "idle" THEN 0 ELSE 1)
    /\ \A i \in 1..Len(requests) : requests[i].loads = 1

\* C17 as stated: each command resolves the configuration exactly once,
\* before any transport call, and issues at most one request, spin-up with
\* filters included.
C17_OneLoadOneRequest ==
    /\ LoadedOnceBeforeRequests
    /\ Len(requests) <= 1

\* spin-up run without --target
SpinUpByFilters ==
    invocation.command = "spin-up" /\ ~Truthy(Get(invocation.options, "target"))

\* C17: each of the modelled commands resolves the configuration exactly
\* once, before any transport call, and issues at most one request, except
\* spin-up without --target, which issues one listTargets request and then,
\* when a target matched, one spinUpTarget request.
C17_OneLoadOneRequestButFilters ==
    /\ LoadedOnceBeforeRequests
    /\ IF pc # "idle" /\ SpinUpByFilters
       THEN /\ Len(requests) <= 2
            /\ Len(requests) >= 1 => requests[1].op = "listTargets"
            /\ Len(requests) = 2 => requests[2].op = "spinUpTarget"
       ELSE Len(requests) <= 1

\* a spin-up by filters has sent both of its requests and ended
C17_Witness ==
    /\ pc = "done"
    /\ SpinUpByFilters
    /\ Len(requests) = 2
    /\ loads = 1

\* the four global flags
GlobalFlags == {"json", "config", "quiet", "project"}

\* C18: the global flags --json, --config, --quiet and --project given to
\* the program are seen by every subcommand's action at any nesting depth:
\* getGlobalOptions returns the program-level values for direct children and
\* for nested subcommands, so --project and --config reach loadConfig.
C18_GlobalFlagsReachAction ==
    (pc # "idle" /\ invocation.command \in Commands) =>
        /\ \A k \in GlobalFlags : cmdGlobalOpts[k] = Get(invocation.programOpts, k)
        /\ (cmdConfig.ok /\ "project" \in DOMAIN invocation.programOpts)
              => cmdConfig.config.projectId = invocation.programOpts.project

\* the commands added to the program itself see the flags
C18_DirectChildrenSeeFlags ==
    (pc # "idle" /\ invocation.command \in ProgramCommands) =>
        /\ \A k \in GlobalFlags : cmdGlobalOpts[k] = Get(invocation.programOpts, k)
        /\ (cmdConfig.ok /\ "project" \in DOMAIN invocation.programOpts)
              => cmdConfig.config.projectId = invocation.programOpts.project

\* a nested subcommand ran with --project given and resolved another project
C18_NestedLosesProject ==
    /\ pc # "idle"
    /\ invocation.command \in TargetsCommands \cup WorkCommands
    /\ "project" \in DOMAIN invocation.programOpts
    /\ cmdConfig.ok
    /\ cmdConfig.config.projectId # invocation.programOpts.project

\* the envelope's error text, or 'HTTP <status>' when it is absent or empty
EnvelopeText ==
    IF "error" \in DOMAIN response /\ response.error # ""
    THEN response.error
    ELSE "HTTP " \o ToString(response.status)

\* the action printed a payload or a success message
PrintedResult ==
    \E i \in 1..Len(printed) :
        printed[i].via \in {"output", "success", "formatKeyValue", "createTable",
                            "spinner.succeed"}

\* what follows a failure envelope, given the text of the message
FailureHandled(text) ==
    /\ pc = "done"
    /\ ending = "exit"
    /\ exitCode = 1
    /\ ErrorTexts = <<"Error: " \o text>>
    /\ ~PrintedResult

\* C20 as stated: in every command a failure envelope (ok false, any status)
\* makes the command print an error message, print no payload or success
\* message, send no further request and exit with code 1; the message is the
\* envelope's error text, or 'HTTP <status>' when that is absent or empty.
C20_FailureEnvelopeAsStated ==
    FailureReceived => FailureHandled(EnvelopeText)

\* C20: the same for each of the modelled commands, except that targets show
\* prints 'Target not found: <target>' for a failure envelope with status 404.
C20_FailureEnvelope ==
    FailureReceived =>
        FailureHandled(IF invocation.command = "targets show" /\ response.status = 404
                       THEN "Target not found: " \o invocation.arg
                       ELSE EnvelopeText)

\* targets show ended on a 404 envelope that carried an error text
C20_Witness ==
    /\ pc = "done"
    /\ invocation.command = "targets show"
    /\ FailureReceived
    /\ response.status = 404
    /\ "error" \in DOMAIN response
    /\ response.error = "remote says no"
    /\ exitCode = 1

----------------------------------------------------------------------------
(* Properties of the confirmation and of local validation *)

\* the commands that ask before they act
DestructiveCommands == {"shutdown", "targets remove"}

\* the user answered the confirmation prompt with yes / with no
Confirmed == "confirmed" \in DOMAIN answered /\ answered.confirmed

Declined == "confirmed" \in DOMAIN answered /\ ~answered.confirmed

\* C21: shutdown and targets remove send their request (shutdownAgent /
\* deleteTarget) only if --yes was given, or --json is set, or the user
\* answered the confirmation prompt affirmatively; when the user declines no
\* request is ever sent and the command ends without an error exit
\* (shutdown exits 0, targets remove returns).
C21_ConfirmedBeforeSend ==
    invocation.command \in DestructiveCommands =>
        /\ requests # <<>> =>
              \/ Truthy(Get(invocation.options, "yes"))
              \/ Truthy(Get(invocation.programOpts, "json"))
              \/ Confirmed
        /\ Declined =>
              /\ requests = <<>>
              /\ pc = "done"
              /\ exitCode = 0
              /\ ending = (IF invocation.command = "shutdown" THEN "exit" ELSE "return")

\* a shutdown the user declined has ended
C21_Witness ==
    /\ invocation.command = "shutdown"
    /\ Declined
    /\ pc = "done"
    /\ requests = <<>>

\* an option the user gave with a value that is not empty
Given(k) == Truthy(Get(invocation.options, k))

\* the local argument validation of the command line fails: submit that does
\* not prompt (--json) with a required field missing, submit with an agent
\* type outside the accepted ones, targets add without what its mechanism
\* needs, targets update with no update field, spin-up with neither --target
\* nor a filter
ValidationFails ==
    LET o == invocation.options
    IN  CASE invocation.command = "submit" ->
                \/ /\ Truthy(Get(invocation.programOpts, "json"))
                   /\ ~(Given("description") /\ Given("boundary") /\ Given("capability"))
                \/ Given("agentType") /\ o.agentType \notin {"copilot-cli", "claude-code"}
          [] invocation.command = "targets add" ->
                \/ o.mechanism = "ssh" /\ ~Given("host")
                \/ o.mechanism = "github-actions" /\ ~(Given("repo") /\ Given("workflow"))
                \/ o.mechanism = "local" /\ ~Given("command")
                \/ o.mechanism = "webhook" /\ ~Given("url")
          [] invocation.command = "targets update" ->
                DOMAIN o \cap {"capabilities", "boundaries", "description"} = {}
          [] invocation.command = "spin-up" ->
                ~(Given("target") \/ Given("type") \/ Given("capability") \/ Given("boundary"))
          [] OTHER -> FALSE

\* the reply to spin-up's filter query listed no target
NoTargetMatched ==
    /\ invocation.command = "spin-up"
    /\ requests # <<>>
    /\ requests[1].op = "listTargets"
    /\ pc \notin {"idle", "request"} \/ Len(requests) > 1
    /\ "ok" \in DOMAIN response
    /\ response.ok
    /\ "targets" \in DOMAIN response.data
    /\ response.data.targets = <<>>

\* C22: whenever local argument validation fails the command exits with
\* code 1 without having sent any request (submit, targets add, targets
\* update, spin-up), and a spin-up whose filter query returns zero targets
\* never calls spinUpTarget.
C22_ValidationBeforeRequest ==
    /\ ValidationFails =>
          /\ requests = <<>>
          /\ pc \in {"prompt", "done"}
          /\ pc = "done" => exitCode = 1 /\ ending = "exit"
          /\ pc = "prompt" => invocation.command = "submit"
    /\ NoTargetMatched =>
          /\ \A i \in 1..Len(requests) : requests[i].op # "spinUpTarget"
          /\ pc = "done"
          /\ exitCode = 1

\* targets add for ssh without --host has ended
C22_Witness ==
    /\ invocation.command = "targets add"
    /\ invocation.options.mechanism = "ssh"
    /\ ~Given("host")
    /\ pc = "done"
    /\ exitCode = 1
    /\ requests = <<>>

\* a spin-up whose filter query listed nothing has ended
C22_NoTargetReached == NoTargetMatched /\ pc = "done"

----------------------------------------------------------------------------
(* Properties of the submitWork request *)

\* the submitWork requests sent so far
SubmitRequests == {i \in 1..Len(requests) : requests[i].op = "submitWork"}

\* a string with a character that is not white space
NonBlank(s) ==
    /\ s # Undefined
    /\ \E i \in 1..Len(s) : SubSeq(s, i, i) \notin {" ", "\t", "\n", "\r"}

\* the work details came from the interactive prompt
FromPrompt == "details" \in DOMAIN answered

\* C23: every submitWork request the submit command sends carries a boundary
\* that is non-empty after trimming, whether the work details came from the
\* command-line options or from the interactive prompt.
C23_BoundaryNonEmpty ==
    \A i \in SubmitRequests : NonBlank(requests[i].args.boundary)

\* a submitWork request was sent with the details the prompt gave
C23_Witness ==
    /\ SubmitRequests # {}
    /\ FromPrompt
    /\ requests[1].args.boundary = "production"

\* a submitWork request was sent with the details the options gave
C23_FromOptionsReached ==
    /\ SubmitRequests # {}
    /\ ~FromPrompt

\* a blank boundary, from the options or from the prompt, ended the command
C23_BlankRejected ==
    /\ invocation.command = "submit"
    /\ pc = "done"
    /\ requests = <<>>
    /\ \E i \in 1..Len(printed) :
          printed[i] = [via |-> "error", text |-> "Boundary must be a non-empty string"]

\* C24: the priority submit sends in non-prompting mode is the --priority
\* value when one was given, otherwise the configured defaultPriority,
\* otherwise 5, and the value sent is always an integer in 1..10, for every
\* --priority input (0, values above 10, negative and non-numeric included).
C24_PriorityInRange ==
    \A i \in SubmitRequests :
        ~FromPrompt =>
            /\ requests[i].args.priority \in 1..10
            /\ "priority" \notin DOMAIN invocation.options =>
                  requests[i].args.priority =
                      (IF "defaultPriority" \in DOMAIN cmdConfig.config
                       THEN cmdConfig.config.defaultPriority ELSE 5)

\* the --priority inputs that are written as an integer of 1..10
InRangeInputs == {ToString(n) : n \in 1..10}

\* for a --priority that is absent or written as an integer of 1..10 the
\* value sent is that integer, or the default
C24_InRangeForValidInput ==
    \A i \in SubmitRequests :
        (~FromPrompt /\ Get(invocation.options, "priority") \in InRangeInputs \cup {Undefined}) =>
            /\ requests[i].args.priority \in 1..10
            /\ "priority" \in DOMAIN invocation.options =>
                  ToString(requests[i].args.priority) = invocation.options.priority

\* submit sent a priority outside 1..10
C24_OutOfRangeSent ==
    \E i \in SubmitRequests : ~FromPrompt /\ requests[i].args.priority \notin 1..10

----------------------------------------------------------------------------
(* Properties of spin-up and shutdown *)

\* the listTargets queries spin-up has sent
FilterQueries ==
    {i \in 1..Len(requests) :
        invocation.command = "spin-up" /\ requests[i].op = "listTargets"}

\* the query carries the filter k as the user gave it
Carries(query, k) ==
    Given(k) => (k \in DOMAIN query /\ query[k] = invocation.options[k])

\* C25: spin-up without --target triggers the first element of a listTargets
\* result that was queried with every filter the user supplied (--type,
\* --capability and --boundary), so the triggered target satisfies them all.
C25_QueryCarriesEveryFilter ==
    \A i \in FilterQueries :
        \A k \in {"type", "capability", "boundary"} : Carries(requests[i].args, k)

\* --type and --capability are carried
C25_TypeAndCapabilityCarried ==
    \A i \in FilterQueries :
        \A k \in {"type", "capability"} : Carries(requests[i].args, k)

\* the target triggered is the first one the query listed
C25_FirstListedTriggered ==
    (SpinUpByFilters /\ Len(requests) = 2 /\ pc = "request") =>
        LET first == response.data.targets[1]
        IN  requests[2].args.targetId =
                (IF "id" \in DOMAIN first THEN first.id ELSE first.name)

\* spin-up queried the targets without the --boundary it was given
C25_BoundaryDropped ==
    /\ FilterQueries # {}
    /\ Given("boundary")
    /\ "boundary" \notin DOMAIN requests[1].args

\* the exit code a piece of an action's body ends the process with, -1 when
\* the action goes on
CodeOf(r) ==
    CASE r.kind = "exit"   -> r.code
      [] r.kind = "return" -> 0
      [] OTHER             -> -1

\* the exit code of the run that receives the same reply to the same
\* request with --json set to j
CodeUnderJson(j) ==
    CodeOf(catch(invocation.command,
                 afterResponse(invocation, [cmdGlobalOpts EXCEPT !.json = j], <<>>,
                               requests[Len(requests)], response)))

\* shutdown with --yes, or spin-up, has ended on a reply
EndedOnReply ==
    /\ pc = "done"
    /\ invocation.command \in {"shutdown", "spin-up"}
    /\ invocation.command = "shutdown" => Given("yes")
    /\ requests # <<>>
    /\ "ok" \in DOMAIN response

\* C26: for shutdown and spin-up the exit code depends only on the remote
\* response and not on the output mode: two runs that receive the same
\* response, one with --json and one without (confirmation skipped with
\* --yes), end with the same exit code.
C26_ExitCodeSameInBothModes ==
    EndedOnReply =>
        \A j \in {Undefined, Flag} : CodeUnderJson(j) = exitCode

\* the two modes agree on every reply that does not carry a failure inside
\* an ok response
C26_SameUnlessFailureInsideOk ==
    (EndedOnReply /\ ~FailureInsideOk) =>
        \A j \in {Undefined, Flag} : CodeUnderJson(j) = exitCode

\* shutdown under --json ended with code 0 on a reply that ends the run
\* without --json with code 1
C26_ModesDiffer ==
    /\ EndedOnReply
    /\ invocation.command = "shutdown"
    /\ Truthy(cmdGlobalOpts.json)
    /\ exitCode = 0
    /\ CodeUnderJson(Undefined) = 1

\* the fields of a submitWork request that could name an agent type
AgentTypeFields == {"agentType", "requiredAgentType", "preferredAgentType", "targetAgentType"}

\* C29: a valid --agent-type passed to submit is forwarded to the
\* coordinator: the submitWork request carries the required agent type
\* whenever the option was given and accepted by validation.
C29_AgentTypeForwarded ==
    \A i \in SubmitRequests :
        Given("agentType") =>
            \E k \in AgentTypeFields \cap DOMAIN requests[i].args :
                requests[i].args[k] = invocation.options.agentType

\* a request is sent only with an agent type that is absent or accepted
C29_AgentTypeValidated ==
    \A i \in SubmitRequests :
        Given("agentType") => invocation.options.agentType \in {"copilot-cli", "claude-code"}

\* submit sent its request without the agent type it was given
C29_AgentTypeDropped ==
    /\ SubmitRequests # {}
    /\ Given("agentType")
    /\ AgentTypeFields \cap DOMAIN requests[1].args = {}

----------------------------------------------------------------------------
(* Properties of LoomSubjects within one project *)

\* the two calls are different operations of builders for the same project
DifferentOperationsOfOneProject ==
    /\ SubjectsBuilt
    /\ subjectCalls[1].projectId = subjectCalls[2].projectId
    /\ subjectCalls[1].method # subjectCalls[2].method

\* C30: within one project two different LoomSubjects operations never
\* produce the same subject, for every entity id: agentDetails(guid) never
\* equals agentsList() or agentShutdown(), and workStatus(id) never equals
\* the subject of another work operation.
C30_OperationsDistinctInProject ==
    DifferentOperationsOfOneProject => subjects[1] # subjects[2]

\* the same for every pair of operations without agentDetails; workStatus
\* is among them
C30_DistinctExceptAgentDetails ==
    (/\ DifferentOperationsOfOneProject
     /\ subjectCalls[1].method # "agentDetails"
     /\ subjectCalls[2].method # "agentDetails")
        => subjects[1] # subjects[2]

\* agentDetails('list') and agentsList() of one project gave one subject
C30_DetailsEqualsList ==
    /\ DifferentOperationsOfOneProject
    /\ subjectCalls[1].method = "agentDetails"
    /\ subjectCalls[1].id = "list"
    /\ subjectCalls[2].method = "agentsList"
    /\ subjects[1] = subjects[2]

----------------------------------------------------------------------------
(* Properties of the cached NATS connection under interleaved calls *)

\* the connections of the process that are not closed
LiveConnections == {id \in 1..Len(connections) : connections[id].status # "closed"}

\* the last call was a getNATSConnection that handed out a connection
HandedOut ==
    /\ lastReturn.op = "get"
    /\ lastReturn.outcome.kind = "connection"

\* at most one connection is not closed, and the connection a call hands out
\* is the cached one, newly opened or found open in the cache
ConnectionsSafe ==
    /\ Cardinality(LiveConnections) <= 1
    /\ HandedOut =>
          /\ lastReturn.outcome.id = lastReturn.cacheAfter
          /\ lastReturn.connected # 0 \/ lastReturn.statusBefore = "open"

\* C27: under any interleaving of getNATSConnection and closeNATSConnection
\* calls at their await points at most one open connection exists per
\* process, and every connection handed to a caller is the cached one and is
\* neither draining nor closed when returned: two overlapping
\* getNATSConnection calls on an empty cache do not both open a connection,
\* and a getNATSConnection that runs while closeNATSConnection awaits drain
\* does not return the draining connection.
C27_SafeUnderInterleaving == ConnectionsSafe

\* two overlapping calls have each opened a connection
C27_TwoOpened ==
    /\ Cardinality(LiveConnections) = 2
    /\ cachedConnection = 2

\* a call was handed the connection another call is draining
C27_DrainingHandedOut ==
    /\ HandedOut
    /\ lastReturn.connected = 0
    /\ lastReturn.statusBefore = "draining"

\* the last call was a getNATSConnection that threw
GetFailed ==
    /\ lastReturn.op = "get"
    /\ lastReturn.outcome.kind = "error"

\* the last call was a getNATSConnection that found no usable connection
FoundNoLiveCache ==
    /\ lastReturn.op = "get"
    /\ lastReturn.statusBefore \in {"null", "closed"}

\* C28: when connect fails inside getNATSConnection the error is raised to
\* the caller and the cache is left unchanged (never holding a half-open or
\* failed connection), so a later getNATSConnection attempts a fresh connect;
\* and when the cached connection was closed by the remote side, the next
\* getNATSConnection replaces it with a new open connection.
C28_FailedConnectLeavesCache ==
    /\ GetFailed =>
          /\ lastReturn.cacheAfter = lastReturn.cacheBefore
          /\ cachedConnection = lastReturn.cacheBefore
          /\ ~cacheIsLive(cachedConnection, connections)
          /\ LiveConnections = {}
    /\ FoundNoLiveCache =>
          /\ lastReturn.attempted \/ lastReturn.read = "failed"
          /\ ~GetFailed =>
                /\ lastReturn.connected # 0
                /\ lastReturn.connected # lastReturn.cacheBefore
                /\ lastReturn.connected = Len(connections)
                /\ lastReturn.outcome.id = lastReturn.connected
                /\ lastReturn.cacheAfter = lastReturn.connected
                /\ cachedConnection = lastReturn.connected

\* a connect failed while the cache held a connection the remote side closed
C28_Witness ==
    /\ GetFailed
    /\ lastReturn.attempted
    /\ lastReturn.statusBefore = "closed"
    /\ cachedConnection # 0

\* a connection the remote side closed was replaced by a new one
C28_ReplacedReached ==
    /\ FoundNoLiveCache
    /\ lastReturn.statusBefore = "closed"
    /\ lastReturn.connected = 2
    /\ connections[2].status = "open"

====
